---- MODULE Spec2Model ----
(***************************************************************************)
(* Model of the fumadocs-transpiler core: the block scanner                *)
(* (AnnotationParser.parseAnnotations) and the forward emitter             *)
(* (AnnotationTransformer.transformAnnotations), run one after the other   *)
(* as FumadocsTranspiler.processFile runs them.                            *)
(*                                                                         *)
(* Representation of text.  A string is the sequence of its lines (what    *)
(* String.split("\n") returns), so it always has at least one line; the    *)
(* empty string is << << >> >>.  A line is a sequence of tokens.  A token  *)
(* of a source line is a run of characters that every regular expression   *)
(* of the program treats alike (one character, or a word); a token of      *)
(* emitted markup is a literal piece of a tag.  The empty line is << >>.   *)
(***************************************************************************)
EXTENDS Integers, Sequences, FiniteSets, TLC

\* ----------------------------------------------------------------- bounds
MaxLines == 5
\* lines of a file, and files processed by one instance, under SpecFiles
MaxFileLines == 2
MaxFiles == 2
\* lines of the content handed to generateFinalContent under SpecAssemble
MaxAssembleLines == 4
\* lines of the body of an element handed to reverseTransform
MaxBodyLines == 3
\* lines of a document taken forward and back under SpecRoundTrip
MaxRoundTripLines == 4
\* content lines of a block handed to one function under SpecCalls
MaxCallLines == 2
\* content lines of a files block handed to parseFilesContent under SpecCalls
MaxFilesLines == 4
\* attributes in the attribute text handed to parseAttributes under SpecCalls
MaxAttributes == 3
\* lines before the fenced code block of a file of a run
MaxHeadingLines == 2
\* watch events whose processFile invocations overlap, and blocks of a watched file
MaxEvents == 2
MaxEventBlocks == 1

\* ------------------------------------------------------- character classes
\* \s of the regular expressions
SpaceTokens == {" ", "\t"}

\* tokens all of whose characters are in [a-zA-Z-]
TypeTokens ==
  {"callout-info", "callout-warn", "callout-error", "callout-note", "tabs",
   "steps", "accordion", "code-block", "files", "banner", "unknown-type",
   "custom-component", "text", "lang", "title", "type", "js", "info", "warn",
   "error", "note"}

\* value of an absent optional field (undefined); a string of the program is
\* a line, so this is a line no text of the model contains
Undefined == <<"#undefined">>

\* the attribute object {} : a function from keys to values
NoAttributes == [k \in {} |-> Undefined]

\* value of the variable currentBlock when it is null
NoBlock == [type |-> Undefined, attributes |-> NoAttributes, startLine |-> 0,
            originalText |-> << >>]

\* length of the longest prefix of s all of whose tokens are in set S
RECURSIVE PrefixIn(_, _)
PrefixIn(s, S) ==
  IF s = << >> \/ Head(s) \notin S THEN 0 ELSE 1 + PrefixIn(Tail(s), S)

\* length of the longest prefix of s none of whose tokens is in set S
RECURSIVE PrefixNotIn(_, _)
PrefixNotIn(s, S) ==
  IF s = << >> \/ Head(s) \in S THEN 0 ELSE 1 + PrefixNotIn(Tail(s), S)

Drop(s, n) == SubSeq(s, n + 1, Len(s))
Take(s, n) == SubSeq(s, 1, n)

\* the marker ":::"
Colons == <<":", ":", ":">>

StartsWithColons(line) ==
  Len(line) >= 3 /\ line[1] = ":" /\ line[2] = ":" /\ line[3] = ":"

\* /^:::\s+([a-zA-Z-]+)(?:\s+(.+?))?$/ : the match, or matched |-> FALSE.
\* After ":::" come one or more spaces, then the longest run of type
\* characters; what is left is empty, or spaces followed by the attribute
\* text, which has at least one character (when only spaces are left, the
\* last of them is the attribute text).
ANNOTATION_REGEX(line) ==
  IF ~StartsWithColons(line) THEN [matched |-> FALSE]
  ELSE LET afterColons == Drop(line, 3)
           nsp  == PrefixIn(afterColons, SpaceTokens)
           afterSp == Drop(afterColons, nsp)
           nty  == PrefixIn(afterSp, TypeTokens)
           rest == Drop(afterSp, nty)
           nsp2 == PrefixIn(rest, SpaceTokens)
           take == IF nsp2 = Len(rest) THEN nsp2 - 1 ELSE nsp2
       IN  IF nsp = 0 \/ nty = 0 THEN [matched |-> FALSE]
           ELSE IF rest = << >>
             THEN [matched |-> TRUE, type |-> Take(afterSp, nty),
                   attributesStr |-> << >>]
           ELSE IF nsp2 >= 1 /\ Len(rest) >= 2
             THEN [matched |-> TRUE, type |-> Take(afterSp, nty),
                   attributesStr |-> Drop(rest, take)]
           ELSE [matched |-> FALSE]

\* /^:::$/
CLOSING_REGEX(line) == line = <<":", ":", ":">>

\* Array.join("\n") of an array of lines: the empty array gives the empty
\* string, which is one empty line
JoinLines(ls) == IF ls = << >> THEN << << >> >> ELSE ls

\* ---------------------------------------------------------------- parser
\* the global regular expression /(\w+)=(?:"([^"]*)"|([^\s]+))/g
WordTokens == {"text", "lang", "title", "type", "js", "info", "warn", "tabs",
               "steps", "accordion", "files", "banner", "k", "v", "w"}

\* index of the first token of s at or after position p that is in S, or 0
RECURSIVE IndexIn(_, _, _)
IndexIn(s, p, S) ==
  IF p > Len(s) THEN 0 ELSE IF s[p] \in S THEN p ELSE IndexIn(s, p + 1, S)

\* number of tokens of S that end right before position k, not before p
RECURSIVE RunBefore(_, _, _, _)
RunBefore(s, k, p, S) ==
  IF k - 1 < p \/ s[k - 1] \notin S THEN 0 ELSE 1 + RunBefore(s, k - 1, p, S)

\* one attrRegex.exec starting at lastIndex p: the leftmost match, or
\* matched |-> FALSE.  A match is a run of word characters, "=", and then a
\* quoted value (first alternative) or a run of non-space characters.
RECURSIVE attrRegexExec(_, _)
attrRegexExec(s, p) ==
  LET k == IndexIn(s, p, {"="})
  IN  IF k = 0 THEN [matched |-> FALSE]
      ELSE LET nkey == RunBefore(s, k, p, WordTokens)
               q2   == IF k + 1 <= Len(s) /\ s[k + 1] = "\""
                         THEN IndexIn(s, k + 2, {"\""}) ELSE 0
               nun  == PrefixNotIn(Drop(s, k), SpaceTokens)
           IN  IF nkey = 0 THEN attrRegexExec(s, k + 1)
               ELSE IF q2 # 0
                 THEN [matched |-> TRUE, key |-> SubSeq(s, k - nkey, k - 1),
                       quotedValue |-> SubSeq(s, k + 2, q2 - 1),
                       unquotedValue |-> Undefined, lastIndex |-> q2 + 1]
               ELSE IF nun > 0
                 THEN [matched |-> TRUE, key |-> SubSeq(s, k - nkey, k - 1),
                       quotedValue |-> Undefined,
                       unquotedValue |-> SubSeq(s, k + 1, k + nun),
                       lastIndex |-> k + nun + 1]
               ELSE attrRegexExec(s, k + 1)

\* x || y of JavaScript on strings: the empty string and undefined are falsy
OrElse(x, y) == IF x = Undefined \/ x = << >> THEN y ELSE x

\* String.trim() of a one-line string
RECURSIVE TrimEnd(_)
TrimEnd(s) ==
  IF s # << >> /\ s[Len(s)] \in SpaceTokens THEN TrimEnd(Take(s, Len(s) - 1))
  ELSE s

Trim(s) == TrimEnd(Drop(s, PrefixIn(s, SpaceTokens)))

parseAttributes(attributesStr) ==
  LET \* the while loop of parseAttributes from lastIndex p with the object so far
      RECURSIVE parseAttributesFrom(_, _, _)
      parseAttributesFrom(s, p, attributes) ==
        LET match == attrRegexExec(s, p)
        IN  IF ~match.matched THEN attributes
            ELSE parseAttributesFrom(s, match.lastIndex,
                   (match.key :> OrElse(match.quotedValue, match.unquotedValue))
                     @@ attributes)
  IN
      IF Trim(attributesStr) = << >> THEN NoAttributes
      ELSE parseAttributesFrom(attributesStr, 1, NoAttributes)

\* ----------------------------------------------------------- transformer
\* the import declarations the emitters register
CalloutImport == "import { Callout } from 'fumadocs-ui/components/callout';"
TabsImport == "import { Tabs, Tab } from 'fumadocs-ui/components/tabs';"
StepsImport == "import { Steps, Step } from 'fumadocs-ui/components/steps';"
AccordionImport ==
  "import { Accordions, Accordion } from 'fumadocs-ui/components/accordion';"
CodeBlockImport == "import { CodeBlock } from 'fumadocs-ui/components/codeblock';"
FilesImport == "import { Files, File } from 'fumadocs-ui/components/files';"
BannerImport == "import { Banner } from 'fumadocs-ui/components/banner';"

\* attributes[key], undefined when the key is absent
Attr(attributes, key) ==
  IF key \in DOMAIN attributes THEN attributes[key] ELSE Undefined

\* content.split("\n").filter((line) => line.trim())
NonBlankLines(content) == SelectSeq(content, LAMBDA line : Trim(line) # << >>)

\* concatenation of a sequence of sequences
RECURSIVE Flatten(_)
Flatten(ss) == IF ss = << >> THEN << >> ELSE Head(ss) \o Flatten(Tail(ss))

\* an emitter's outcome: the markup (a string, as its lines) and the import
\* it added to usedImports
Emitted(markup, import) == [threw |-> FALSE, markup |-> markup, imports |-> {import}]

transformCallout(content, type) ==
  Emitted(<< <<"<Callout type=\"", type, "\">">> >> \o content \o << <<"</Callout>">> >>,
          CalloutImport)

\* const [title, ...contentParts] = line.split("|") with
\* title.trim() and contentParts.join("|").trim()
SplitTitleContent(line) ==
  LET bar == IndexIn(line, 1, {"|"})
  IN  IF bar = 0 THEN [title |-> Trim(line), content |-> << >>]
      ELSE [title |-> Trim(Take(line, bar - 1)), content |-> Trim(Drop(line, bar))]

parseTabsContent(content) ==
  LET ls == NonBlankLines(content)
  IN  [k \in DOMAIN ls |-> SplitTitleContent(ls[k])]

\* the titles, each in double quotes, joined by ", "
RECURSIVE QuotedList(_)
QuotedList(titles) ==
  IF titles = << >> THEN << >>
  ELSE <<"\"">> \o Head(titles) \o <<"\"">>
         \o (IF Len(titles) > 1 THEN <<",", " ">> ELSE << >>)
         \o QuotedList(Tail(titles))

transformTabs(content) ==
  LET tabs == parseTabsContent(content)
      tabTitles == QuotedList([k \in DOMAIN tabs |-> tabs[k].title])
  IN  Emitted(<< <<"<Tabs items={[">> \o tabTitles \o <<"]}>">> >>
                \o Flatten([k \in DOMAIN tabs |->
                      << <<"<Tab value=\"">> \o tabs[k].title \o <<"\">">>,
                         tabs[k].content,
                         <<"</Tab>">> >>])
                \o << <<"</Tabs>">> >>,
              TabsImport)

\* [sS][tT][eE][pP] and \d of /^Step\s+(\d+):\s*(.+)$/i
StepWordTokens == {"Step", "step", "STEP"}
DigitTokens == {"0", "1", "2", "3", "4", "5", "6", "7", "8", "9", "10", "12"}

\* line.match(/^Step\s+(\d+):\s*(.+)$/i): after the colon the spaces are
\* skipped and the rest, which has at least one character, is group 2 (when
\* only spaces follow the colon, the last of them is group 2)
StepMatch(line) ==
  IF line = << >> \/ line[1] \notin StepWordTokens THEN [matched |-> FALSE]
  ELSE LET afterWord == Drop(line, 1)
           nsp  == PrefixIn(afterWord, SpaceTokens)
           afterSp == Drop(afterWord, nsp)
           ndig == PrefixIn(afterSp, DigitTokens)
           afterDig == Drop(afterSp, ndig)
           rest == Drop(afterDig, 1)
           nsp2 == PrefixIn(rest, SpaceTokens)
       IN  IF nsp = 0 \/ ndig = 0 \/ afterDig = << >> \/ afterDig[1] # ":"
              \/ rest = << >>
             THEN [matched |-> FALSE]
             ELSE [matched |-> TRUE, number |-> Take(afterSp, ndig),
                   text |-> IF nsp2 = Len(rest) THEN <<rest[Len(rest)]>>
                            ELSE Drop(rest, nsp2)]

parseStepsContent(content) ==
  LET ls == NonBlankLines(content)
  IN  [k \in DOMAIN ls |->
        LET match == StepMatch(ls[k])
        IN  IF match.matched
              THEN [title |-> <<"Step", " ">> \o match.number,
                    content |-> Trim(match.text)]
              ELSE [title |-> <<"Step">>, content |-> Trim(ls[k])]]

transformSteps(content) ==
  LET steps == parseStepsContent(content)
  IN  Emitted(<< <<"<Steps>">> >>
                \o Flatten([k \in DOMAIN steps |->
                      << <<"<Step>">>,
                         <<"#", "#", " ">> \o steps[k].title,
                         steps[k].content,
                         <<"</Step>">> >>])
                \o << <<"</Steps>">> >>,
              StepsImport)

parseAccordionContent(content) ==
  LET ls == NonBlankLines(content)
  IN  [k \in DOMAIN ls |-> SplitTitleContent(ls[k])]

transformAccordion(content) ==
  LET items == parseAccordionContent(content)
  IN  Emitted(<< <<"<Accordions type=\"single\">">> >>
                \o Flatten([k \in DOMAIN items |->
                      << <<"<Accordion title=\"">> \o items[k].title \o <<"\">">>,
                         items[k].content,
                         <<"</Accordion>">> >>])
                \o << <<"</Accordions>">> >>,
              AccordionImport)

\* the token of a code fence, three backquotes (TLA+ strings have no
\* backquote)
Fence == "~~~"

transformCodeBlock(content, attributes) ==
  LET lang  == OrElse(Attr(attributes, <<"lang">>), <<"text">>)
      title == IF OrElse(Attr(attributes, <<"title">>), Undefined) # Undefined
                 THEN <<" title=\"">> \o attributes[<<"title">>] \o <<"\"">>
                 ELSE << >>
  IN  Emitted(<< <<"<CodeBlock lang=\"">> \o lang \o <<"\"">> \o title \o <<">">>,
                 <<Fence>> \o lang >>
                \o content
                \o << <<Fence>>, <<"</CodeBlock>">> >>,
              CodeBlockImport)

\* faulty variant: the banner emitter registers the Callout import
transformBannerAsCallout(content, attributes) ==
  LET type == OrElse(Attr(attributes, <<"type">>), <<"info">>)
  IN  Emitted(<< <<"<Banner type=\"">> \o type \o <<"\">">> >>
                \o content \o << <<"</Banner>">> >>,
              CalloutImport)

transformBanner(content, attributes) ==
  LET type == OrElse(Attr(attributes, <<"type">>), <<"info">>)
  IN  Emitted(<< <<"<Banner type=\"">> \o type \o <<"\">">> >>
                \o content \o << <<"</Banner>">> >>,
              BannerImport)

\* the node list with node pushed to the children of the node at path (a
\* sequence of child indices from the roots), or to the roots for << >>
RECURSIVE PushNode(_, _, _)
PushNode(nodes, path, node) ==
  IF path = << >> THEN Append(nodes, node)
  ELSE [nodes EXCEPT ![Head(path)].children.items =
                        PushNode(@, Tail(path), node)]

\* the children of the node at path
RECURSIVE ChildrenAt(_, _)
ChildrenAt(nodes, path) ==
  IF path = << >> THEN nodes
  ELSE ChildrenAt(nodes[Head(path)].children.items, Tail(path))

\* faulty variant: an entry of the node's own level stays on the stack
RECURSIVE PopStackDeeper(_, _)
PopStackDeeper(stack, level) ==
  IF stack # << >> /\ stack[Len(stack)].level > level
    THEN PopStackDeeper(Take(stack, Len(stack) - 1), level)
    ELSE stack

\* while (stack.length > 0 && stack[stack.length - 1].level >= level) pop
RECURSIVE PopStack(_, _)
PopStack(stack, level) ==
  IF stack # << >> /\ stack[Len(stack)].level >= level
    THEN PopStack(Take(stack, Len(stack) - 1), level)
    ELSE stack

\* the body of the for loop of parseFilesContent for one line; a stack entry
\* refers to its node by the node's path
FilesLine(st, line) ==
  LET \* FileTreeNode.  children is [defined |-> FALSE] for undefined.  level holds
      \* the number of leading white-space characters, which is twice the level
      \* the program stores (the program compares levels only with each other).
      NoChildren == [defined |-> FALSE, items |-> << >>]
      EmptyChildren == [defined |-> TRUE, items |-> << >>]
  IN
      LET level  == PrefixIn(line, SpaceTokens)
          name   == Trim(line)
          isFile == name[Len(name)] # "/"
          node   == [name |-> IF isFile THEN name ELSE Take(name, Len(name) - 1),
                     children |-> IF isFile THEN NoChildren ELSE EmptyChildren,
                     isFile |-> isFile, level |-> level]
          stack  == PopStack(st.stack, level)
          parent == IF stack = << >> THEN << >> ELSE stack[Len(stack)].path
          nodes  == PushNode(st.nodes, parent, node)
          path   == parent \o <<Len(ChildrenAt(nodes, parent))>>
      IN  [nodes |-> nodes,
           stack |-> IF isFile THEN stack
                     ELSE Append(stack, [path |-> path, level |-> level])]

parseFilesContent(content) ==
  LET RECURSIVE FilesLoop(_, _)
      FilesLoop(st, ls) ==
        IF ls = << >> THEN st ELSE FilesLoop(FilesLine(st, Head(ls)), Tail(ls))
  IN  FilesLoop([nodes |-> << >>, stack |-> << >>], NonBlankLines(content)).nodes

\* renderFileTree: the lines rendered for a node list
RECURSIVE renderFileTree(_)
renderFileTree(nodes) ==
  Flatten([k \in DOMAIN nodes |->
    IF nodes[k].isFile
      THEN << <<"<File name=\"">> \o nodes[k].name \o <<"\" />">> >>
      ELSE << <<"<File name=\"">> \o nodes[k].name \o <<"/", "\">">> >>
             \o (IF nodes[k].children.defined
                   THEN renderFileTree(nodes[k].children.items) ELSE << >>)
             \o << <<"</File>">> >>])

transformFiles(content) ==
  LET fileTree == parseFilesContent(content)
  IN  Emitted(<< <<"<Files>">> >> \o renderFileTree(fileTree) \o << <<"</Files>">> >>,
              FilesImport)

\* the placeholder of a component template
Placeholder == "{{content}}"

transformCustomComponent(componentMappings, content, type) ==
  LET \* template.replace("{{content}}", content) for a one-line template: the
      \* first placeholder gives way to the content, whose first line continues the
      \* text before the placeholder and whose last line is continued by the text
      \* after it
      ReplacePlaceholder(template, text) ==
        LET at == IndexIn(template, 1, {Placeholder})
            n  == Len(text)
        IN  IF at = 0 THEN <<template>>
            ELSE [k \in 1..n |->
                   (IF k = 1 THEN Take(template, at - 1) ELSE << >>)
                     \o text[k]
                     \o (IF k = n THEN Drop(template, at) ELSE << >>)]
  IN
      [threw |-> FALSE,
       markup |-> ReplacePlaceholder(componentMappings[type], content),
       imports |-> {}]

\* transformBlock: the markup and the imports added, or threw |-> TRUE for
\* the Error "Unknown annotation type"
transformBlock(componentMappings, block) ==
  LET \* componentMappings[type]
      Mapping(mappings, type) ==
        IF type \in DOMAIN mappings THEN mappings[type]
        ELSE Undefined
  IN
      LET type == block.type
          content == block.content
          attributes == block.attributes
      IN  CASE type = <<"callout-info">>  -> transformCallout(content, "info")
            [] type = <<"callout-warn">>  -> transformCallout(content, "warn")
            [] type = <<"callout-error">> -> transformCallout(content, "error")
            [] type = <<"callout-note">>  -> transformCallout(content, "note")
            [] type = <<"tabs">>          -> transformTabs(content)
            [] type = <<"steps">>         -> transformSteps(content)
            [] type = <<"accordion">>     -> transformAccordion(content)
            [] type = <<"code-block">>    -> transformCodeBlock(content, attributes)
            [] type = <<"files">>         -> transformFiles(content)
            [] type = <<"banner">>        -> transformBanner(content, attributes)
            [] OTHER ->
                 IF OrElse(Mapping(componentMappings, type), Undefined) # Undefined
                   THEN transformCustomComponent(componentMappings, content, type)
                   ELSE [threw |-> TRUE, markup |-> << >>, imports |-> {}]

\* faulty variant: the slice after the block starts at the closing marker
replaceBlockKeepsCloser(content, block, replacement) ==
  LET beforeLines == SubSeq(content, 1, block.startLine - 1)
      afterLines  == SubSeq(content, block.endLine, Len(content))
  IN  beforeLines \o replacement \o afterLines

\* content.split("\n"), the slices before and after the block, and the join
\* around the replacement
replaceBlockInContent(content, block, replacement) ==
  LET beforeLines == SubSeq(content, 1, block.startLine - 1)
      afterLines  == SubSeq(content, block.endLine + 1, Len(content))
  IN  beforeLines \o replacement \o afterLines

\* [...blocks].sort((a, b) => b.startLine - a.startLine): a stable sort by
\* descending startLine, here by insertion
RECURSIVE InsertSorted(_, _)
InsertSorted(sorted, block) ==
  IF sorted = << >> THEN <<block>>
  ELSE IF Head(sorted).startLine >= block.startLine
    THEN <<Head(sorted)>> \o InsertSorted(Tail(sorted), block)
    ELSE <<block>> \o sorted

\* faulty variant: the blocks are taken in the order given
Unsorted(bs) == bs

RECURSIVE SortByStartLineDesc(_)
SortByStartLineDesc(bs) ==
  IF bs = << >> THEN << >>
  ELSE InsertSorted(SortByStartLineDesc(Take(bs, Len(bs) - 1)), bs[Len(bs)])

\* faulty variant: the emission error carries the block's endLine
FailedToTransformErrorAtEnd(block) ==
  [message |-> [text |-> "Failed to transform", blockType |-> block.type,
                startedAt |-> 0],
   line |-> block.endLine, type |-> "error", annotation |-> block.type]

FailedToTransformError(block) ==
  [message |-> [text |-> "Failed to transform", blockType |-> block.type,
                startedAt |-> 0],
   line |-> block.startLine, type |-> "error", annotation |-> block.type]

\* ------------------------------------------------------------- validation
\* line.includes("|")
IncludesBar(line) == \E k \in DOMAIN line : line[k] = "|"

\* faulty variant: one line with a separator is enough
validateTabsContentSomeLine(content) ==
  LET ls == NonBlankLines(content)
  IN  Len(ls) > 0 /\ \E k \in DOMAIN ls : IncludesBar(ls[k])

validateTabsContent(content) ==
  LET ls == NonBlankLines(content)
  IN  Len(ls) > 0 /\ \A k \in DOMAIN ls : IncludesBar(ls[k])

validateStepsContent(content) ==
  LET \* /^Step\s+\d+:/i.test(line.trim())
      StepPrefixTest(line) ==
        LET t == Trim(line)
            afterWord == Drop(t, 1)
            nsp == PrefixIn(afterWord, SpaceTokens)
            afterSp == Drop(afterWord, nsp)
            ndig == PrefixIn(afterSp, DigitTokens)
            afterDig == Drop(afterSp, ndig)
        IN  /\ t # << >> /\ t[1] \in StepWordTokens
            /\ nsp > 0 /\ ndig > 0
            /\ afterDig # << >> /\ afterDig[1] = ":"
  IN
      LET ls == NonBlankLines(content)
      IN  Len(ls) > 0 /\ \A k \in DOMAIN ls : StepPrefixTest(ls[k])

validateAccordionContent(content) ==
  LET ls == NonBlankLines(content)
  IN  Len(ls) > 0 /\ \A k \in DOMAIN ls : IncludesBar(ls[k])

\* validateAnnotation(block): the errors array it returns
validateAnnotation(block) ==
  LET ValidationError(text, kind, b) ==
        [message |-> [text |-> text, blockType |-> b.type, startedAt |-> 0],
         line |-> b.startLine, type |-> kind, annotation |-> b.type]
      \* !content.trim() : every line of the content is white space
      IsBlankText(content) == \A k \in DOMAIN content : Trim(content[k]) = << >>
  IN
      LET type == block.type
          content == block.content
          attributes == block.attributes
          Missing(key) == OrElse(Attr(attributes, key), Undefined) = Undefined
          One(cond, text, kind) ==
            IF cond THEN <<ValidationError(text, kind, block)>> ELSE << >>
      IN  CASE type \in { <<"callout-info">>, <<"callout-warn">>,
                          <<"callout-error">>, <<"callout-note">> } ->
                 One(IsBlankText(content), "Callout annotation has empty content",
                     "warning")
            [] type = <<"tabs">> ->
                 One(~validateTabsContent(content),
                     "Tabs annotation must have content in format Title|Content",
                     "error")
            [] type = <<"steps">> ->
                 One(~validateStepsContent(content),
                     "Steps annotation must have content in format Step N: Description",
                     "error")
            [] type = <<"accordion">> ->
                 One(~validateAccordionContent(content),
                     "Accordion annotation must have content in format Question|Answer",
                     "error")
            [] type = <<"code-block">> ->
                 One(Missing(<<"lang">>),
                     "Code block annotation requires lang attribute", "warning")
            [] type = <<"files">> ->
                 One(IsBlankText(content), "Files annotation has empty content",
                     "warning")
            [] type = <<"banner">> ->
                 One(Missing(<<"type">>),
                     "Banner annotation requires type attribute", "warning")
            [] OTHER -> One(TRUE, "Unknown annotation type", "warning")

\* ------------------------------------------------------------ file handler
\* The frontmatter object: its entries in insertion order. A value is a
\* string (isString) or another YAML scalar, text being its characters.
FmEntry(key, isString, text) == [key |-> key, isString |-> isString, text |-> text]

\* index of the entry of frontmatter with the key, or 0
FmIndex(fm, key) ==
  IF \E k \in DOMAIN fm : fm[k].key = key
    THEN CHOOSE k \in DOMAIN fm : fm[k].key = key
    ELSE 0

\* frontmatter[key] is truthy: a non-empty string, or a scalar other than
\* 0, false and null
FmTruthy(fm, key) ==
  LET k == FmIndex(fm, key)
  IN  /\ k # 0
      /\ fm[k].text # << >>
      /\ fm[k].isString \/ fm[k].text \notin { <<"0">>, <<"false">>, <<"null">> }

\* trimmedLine.startsWith("# ")
StartsWithHash(line) ==
  LET t == Trim(line) IN Len(t) >= 2 /\ t[1] = "#" /\ t[2] = " "

\* extractTitleFromContent: trimmedLine.substring(2).trim() of the first line
\* of the content that starts with "# ", or null
extractTitleFromContent(content) ==
  IF \E k \in DOMAIN content : StartsWithHash(content[k])
    THEN LET k == CHOOSE k \in DOMAIN content :
                    /\ StartsWithHash(content[k])
                    /\ \A j \in 1..(k - 1) : ~StartsWithHash(content[j])
         IN  Trim(Drop(Trim(content[k]), 2))
    ELSE Undefined

\* the while loop of removeTitleFromContent: the first index from k on whose
\* line is not blank, or Len(content) + 1
RECURSIVE SkipBlankLines(_, _)
SkipBlankLines(content, k) ==
  IF k <= Len(content) /\ Trim(content[k]) = << >>
    THEN SkipBlankLines(content, k + 1) ELSE k

\* removeTitleFromContent: when the first non-blank line starts with "# ",
\* the lines after it and after the blank lines that follow it
removeTitleFromContent(content) ==
  LET first == SkipBlankLines(content, 1)
      start == IF first <= Len(content) /\ StartsWithHash(content[first])
                 THEN SkipBlankLines(content, first + 1)
                 ELSE 1
  IN  JoinLines(SubSeq(content, start, Len(content)))

\* faulty variant: no empty line between the heading and the content
convertFrontmatterToTitleNoBlank(fm, content) ==
  IF FmTruthy(fm, <<"title">>)
    THEN << <<"#", " ">> \o fm[FmIndex(fm, <<"title">>)].text >> \o content
    ELSE content

\* convertFrontmatterToTitle: "# " + title, an empty line, the content
convertFrontmatterToTitle(fm, content) ==
  IF FmTruthy(fm, <<"title">>)
    THEN << <<"#", " ">> \o fm[FmIndex(fm, <<"title">>)].text, << >> >> \o content
    ELSE content

\* generateFinalContent(content, imports, frontmatter, inputPath,
\* description, reverse); imports is the Set in its insertion order
generateFinalContent(content, imports, fm, description, reverse) ==
  LET \* frontmatter[key] = value for a string value: an own property keeps its
      \* place, a new one comes last
      FmSet(f, key, text) ==
        LET k == FmIndex(f, key)
        IN  IF k = 0 THEN Append(f, FmEntry(key, TRUE, text))
            ELSE [f EXCEPT ![k] = FmEntry(key, TRUE, text)]
      \* key: "value" for a string, key: JSON.stringify(value) otherwise
      FmLine(entry) ==
        entry.key \o <<":", " ">>
          \o (IF entry.isString THEN <<"\"">> \o entry.text \o <<"\"">> ELSE entry.text)
  IN
      IF reverse THEN convertFrontmatterToTitle(fm, content)
      ELSE
        LET extractedTitle == extractTitleFromContent(content)
            contentWithoutTitle ==
              IF OrElse(extractedTitle, Undefined) # Undefined
                THEN removeTitleFromContent(content) ELSE content
            withTitle ==
              IF OrElse(extractedTitle, Undefined) # Undefined
                THEN FmSet(fm, <<"title">>, extractedTitle) ELSE fm
            enhancedFrontmatter ==
              IF OrElse(description, Undefined) # Undefined
                THEN FmSet(withTitle, <<"description">>, description) ELSE withTitle
            frontmatterText ==
              IF Len(enhancedFrontmatter) > 0
                THEN << <<"---">> >>
                       \o [k \in DOMAIN enhancedFrontmatter |->
                             FmLine(enhancedFrontmatter[k])]
                       \o << <<"---">>, << >> >>
                ELSE << >>
            importsText ==
              IF Len(imports) > 0
                THEN [k \in DOMAIN imports |-> <<imports[k]>>] \o << << >> >>
                ELSE << >>
        IN  frontmatterText \o importsText \o contentWithoutTitle

\* ------------------------------------------------------ reverse transformer
\* The regular expressions of the reverse transformer match across lines, so
\* they work on the string as one sequence of tokens, "\n" between the lines.
NL == "\n"

RECURSIVE FlatOf(_)
FlatOf(ls) ==
  IF Len(ls) <= 1 THEN Flatten(ls)
  ELSE Head(ls) \o <<NL>> \o FlatOf(Tail(ls))

\* String.split("\n")
RECURSIVE LinesOf(_)
LinesOf(s) ==
  LET n == PrefixNotIn(s, {NL})
  IN  IF n = Len(s) THEN <<s>>
      ELSE <<Take(s, n)>> \o LinesOf(Drop(s, n + 1))

\* \s with the line break, and String.trim() of a string of several lines
WhiteTokens == SpaceTokens \cup {NL}

RECURSIVE FlatTrimEnd(_)
FlatTrimEnd(s) ==
  IF s # << >> /\ s[Len(s)] \in WhiteTokens
    THEN FlatTrimEnd(Take(s, Len(s) - 1)) ELSE s

FlatTrim(s) == FlatTrimEnd(Drop(s, PrefixIn(s, WhiteTokens)))

\* the tokens of the markup that hold a double quote, those that start with
\* it, and those that hold ">" (always as their last character) or "<"
QuoteTokens ==
  {"\"", "\">", "\" />", " title=\"", "<Callout type=\"", "<Banner type=\"",
   "<CodeBlock lang=\"", "<Tab value=\"", "<Accordion title=\"",
   "<File name=\"", "<Accordions type=\"single\">"}
NoMatch == [found |-> FALSE]

\* /<Tag\s+attr="([^"]+)"[^>]*>([\s\S]*?)<\/Tag>/ tried at position q of s,
\* open being the token <Tag attr=" and close the token </Tag>: the value is
\* the run of tokens without a quote, the tag ends with the first ">" after
\* the closing quote, the inner text ends before the first close token
ElementMatchAt(s, q, open, close) ==
  LET ClosingQuoteTokens == {"\"", "\">", "\" />"}
      GtTokens ==
        {">", "\">", "\" />", "]}>", "<Accordions type=\"single\">", "<Steps>",
         "<Step>", "<Files>", "</Callout>", "</Banner>", "</CodeBlock>", "</Tabs>",
         "</Tab>", "</Steps>", "</Step>", "</Accordions>", "</Accordion>",
         "</Files>", "</File>", "<CustomComponent>", "</CustomComponent>"}
  IN
      LET n == PrefixNotIn(Drop(s, q), QuoteTokens)
          c == q + n + 1
          tagEnd == IF c <= Len(s) THEN IndexIn(s, c, GtTokens) ELSE 0
          last == IF tagEnd = 0 THEN 0 ELSE IndexIn(s, tagEnd + 1, {close})
      IN  IF s[q] # open \/ n = 0 \/ c > Len(s) \/ s[c] \notin ClosingQuoteTokens
             \/ tagEnd = 0 \/ last = 0
            THEN NoMatch
            ELSE [found |-> TRUE, start |-> q, end |-> last,
                  value |-> SubSeq(s, q + 1, q + n),
                  inner |-> SubSeq(s, tagEnd + 1, last - 1)]

\* the first match of the expression at or after position p
RECURSIVE ElementMatch(_, _, _, _)
ElementMatch(s, p, open, close) ==
  LET q == IndexIn(s, p, {open})
  IN  IF p > Len(s) \/ q = 0 THEN NoMatch
      ELSE IF ElementMatchAt(s, q, open, close).found
        THEN ElementMatchAt(s, q, open, close)
        ELSE ElementMatch(s, q + 1, open, close)

removeImports(content) ==
  LET \* trimmedLine.startsWith("import ") && trimmedLine.includes("fumadocs-ui")
      IsFumadocsImport(line) ==
        LET \* the import declarations of fumadocs-ui, each one token
            ImportTokens ==
              {CalloutImport, TabsImport, StepsImport, AccordionImport, CodeBlockImport,
               FilesImport, BannerImport}
        IN  LET t == Trim(line) IN t # << >> /\ t[1] \in ImportTokens
  IN
      LET \* the for loop of removeImports over the lines left, with skipEmptyLines
          RECURSIVE removeImportsLoop(_, _)
          removeImportsLoop(ls, skipEmptyLines) ==
            IF ls = << >> THEN << >>
            ELSE LET line == Head(ls)
                     blank == Trim(line) = << >>
                 IN  IF IsFumadocsImport(line) THEN removeImportsLoop(Tail(ls), TRUE)
                     ELSE IF skipEmptyLines /\ blank
                       THEN removeImportsLoop(Tail(ls), skipEmptyLines)
                       ELSE <<line>> \o removeImportsLoop(Tail(ls), skipEmptyLines /\ blank)
      IN  JoinLines(removeImportsLoop(content, FALSE))

removeCodeBlockTitles(content) ==
  LET \* the fence, (\w+), \s+ and title="[^"]*" tried at the fence at position q:
      \* the index of the closing quote, or 0.  The title attribute is written
      \* title, =, quote or, as the emitters write it, as the one token title="
      \* with its leading space.
      FenceTitleEnd(s, q) ==
        LET nws == IF q + 1 <= Len(s) THEN PrefixIn(Drop(s, q + 1), WhiteTokens) ELSE 0
            a == q + 2 + nws
            valueAt == IF a + 2 <= Len(s) /\ nws > 0
                            /\ SubSeq(s, a, a + 2) = <<"title", "=", "\"">>
                         THEN a + 3
                       ELSE IF a <= Len(s) /\ s[a] = " title=\"" THEN a + 1
                       ELSE 0
            e == IF valueAt = 0 THEN 0
                 ELSE valueAt + PrefixNotIn(Drop(s, valueAt - 1), QuoteTokens)
        IN  IF q + 1 > Len(s) \/ s[q + 1] \notin WordTokens \/ valueAt = 0
               \/ e > Len(s) \/ s[e] # "\""
              THEN 0 ELSE e
  IN
      LET \* content.replace(/(fence)(\w+)\s+title="[^"]*"/g, "(fence)$1") from p on
          RECURSIVE removeCodeBlockTitlesFrom(_, _)
          removeCodeBlockTitlesFrom(s, p) ==
            LET q == IndexIn(s, p, {Fence})
            IN  IF p > Len(s) \/ q = 0 THEN SubSeq(s, p, Len(s))
                ELSE IF FenceTitleEnd(s, q) = 0
                  THEN SubSeq(s, p, q) \o removeCodeBlockTitlesFrom(s, q + 1)
                  ELSE SubSeq(s, p, q + 1)
                         \o removeCodeBlockTitlesFrom(s, FenceTitleEnd(s, q) + 1)
      IN  removeCodeBlockTitlesFrom(content, 1)

\* word + text as characters: the word runs into the word the text starts with
GlueWord(word, text) ==
  IF text # << >> /\ Head(text) \in TypeTokens
    THEN <<word \o Head(text)>> \o Tail(text)
    ELSE <<word>> \o text

\* faulty variant: an empty line follows the opening marker
CalloutAnnotationBlankLine(type, cleanContent) ==
  Colons \o GlueWord("callout-", type) \o <<NL, NL>> \o cleanContent
    \o <<NL>> \o Colons

\* ":::callout-" type, the clean content, ":::", on lines of their own
CalloutAnnotation(type, cleanContent) ==
  Colons \o GlueWord("callout-", type) \o <<NL>> \o cleanContent \o <<NL>> \o Colons

convertCallouts(content) ==
  LET RECURSIVE convertCalloutsFrom(_, _)
      convertCalloutsFrom(s, p) ==
        LET m == ElementMatch(s, p, "<Callout type=\"", "</Callout>")
        IN  IF ~m.found THEN SubSeq(s, p, Len(s))
            ELSE SubSeq(s, p, m.start - 1)
                   \o CalloutAnnotation(m.value, FlatTrim(m.inner))
                   \o convertCalloutsFrom(s, m.end + 1)
  IN  convertCalloutsFrom(content, 1)

convertBanners(content) ==
  LET RECURSIVE convertBannersFrom(_, _)
      convertBannersFrom(s, p) ==
        LET \* ":::banner type=" the type in quotes, the clean content, ":::"
            BannerAnnotation(type, cleanContent) ==
              Colons \o <<"banner", " ", "type", "=", "\"">> \o type \o <<"\"", NL>>
                \o cleanContent \o <<NL>> \o Colons
        IN
            LET m == ElementMatch(s, p, "<Banner type=\"", "</Banner>")
            IN  IF ~m.found THEN SubSeq(s, p, Len(s))
                ELSE SubSeq(s, p, m.start - 1)
                       \o BannerAnnotation(m.value, FlatTrim(m.inner))
                       \o convertBannersFrom(s, m.end + 1)
  IN  convertBannersFrom(content, 1)

RECURSIVE CodeBlockMatch(_, _)
CodeBlockMatch(s, p) ==
  LET \* codeBlockRegex tried at position q: lang, the optional title, the end of
      \* the tag, and the text up to the first closing tag
      CodeBlockMatchAt(str, q) ==
        LET \* \s*> after the quote at position c that closes an attribute value: the
            \* index of the token that ends the tag, or 0
            TagClose(t, c) ==
              IF t[c] = "\">" THEN c
              ELSE IF t[c] # "\"" THEN 0
              ELSE LET g == c + PrefixIn(Drop(t, c), WhiteTokens) + 1
                   IN  IF g <= Len(t) /\ t[g] = ">" THEN g ELSE 0
            \* \s+title=" after the quote at position c: the index of the first token of
            \* the title, or 0
            TitleStart(t, c) ==
              LET w == PrefixIn(Drop(t, c), WhiteTokens)
              IN  IF t[c] # "\"" THEN 0
                  ELSE IF c + 1 <= Len(t) /\ t[c + 1] = " title=\"" THEN c + 2
                  ELSE IF w > 0 /\ c + w + 3 <= Len(t)
                            /\ SubSeq(t, c + w + 1, c + w + 3) = <<"title", "=", "\"">>
                    THEN c + w + 4
                  ELSE 0
        IN
            LET n == PrefixNotIn(Drop(str, q), QuoteTokens)
                c == q + n + 1
                ts == IF c <= Len(str) THEN TitleStart(str, c) ELSE 0
                tn == IF ts = 0 THEN 0 ELSE PrefixNotIn(Drop(str, ts - 1), QuoteTokens)
                c2 == ts + tn
                titled == ts # 0 /\ tn > 0 /\ c2 <= Len(str) /\ TagClose(str, c2) # 0
                tagEnd == IF c > Len(str) THEN 0
                          ELSE IF titled THEN TagClose(str, c2) ELSE TagClose(str, c)
                last == IF tagEnd = 0 THEN 0 ELSE IndexIn(str, tagEnd + 1, {"</CodeBlock>"})
            IN  IF str[q] # "<CodeBlock lang=\"" \/ n = 0 \/ tagEnd = 0 \/ last = 0
                  THEN NoMatch
                  ELSE [found |-> TRUE, start |-> q, end |-> last,
                        lang |-> SubSeq(str, q + 1, q + n),
                        title |-> IF titled THEN SubSeq(str, ts, c2 - 1) ELSE Undefined,
                        codeContent |-> SubSeq(str, tagEnd + 1, last - 1)]
  IN
      LET q == IndexIn(s, p, {"<CodeBlock lang=\""})
      IN  IF p > Len(s) \/ q = 0 THEN NoMatch
          ELSE IF CodeBlockMatchAt(s, q).found THEN CodeBlockMatchAt(s, q)
          ELSE CodeBlockMatch(s, q + 1)

\* codeContent.match(...): the first fence from position p on with a match
RECURSIVE FenceCode(_, _)
FenceCode(b, p) ==
  LET \* /(fence)[^(backquote)]*\n([\s\S]*?)\n(fence)/ tried at the fence at
      \* position f of b: the greedy run before the first line break takes the
      \* last line break it can (none after the next fence), the lazy group then
      \* ends at the first line break that a fence follows
      FenceCodeAt(c, f) ==
        LET next == IndexIn(c, f + 1, {Fence})
            limit == IF next = 0 THEN Len(c) + 1 ELSE next
            Ends(nl) == { q \in (nl + 1)..(Len(c) - 1) : c[q] = NL /\ c[q + 1] = Fence }
            ps == { nl \in (f + 1)..(limit - 1) : c[nl] = NL /\ Ends(nl) # {} }
            nl == CHOOSE x \in ps : \A y \in ps : y <= x
            q == CHOOSE x \in Ends(nl) : \A y \in Ends(nl) : x <= y
        IN  IF ps = {} THEN NoMatch
            ELSE [found |-> TRUE, code |-> SubSeq(c, nl + 1, q - 1)]
  IN
      LET f == IndexIn(b, p, {Fence})
      IN  IF p > Len(b) \/ f = 0 THEN NoMatch
          ELSE IF FenceCodeAt(b, f).found THEN FenceCodeAt(b, f)
          ELSE FenceCode(b, f + 1)

\* looksLikeHeadingTitle: some pattern of headingPatterns matches the title
looksLikeHeadingTitle(title) ==
  LET \* tokens that start, whatever the case, with one of Installation, Usage,
      \* Example, Setup, Configuration, API, Tutorial, Guide; the two words of
      \* Getting Started; the words of the second pattern
      HeadingWordTokens ==
        {"Installation", "Usage", "Example", "Setup", "Configuration", "API",
         "Tutorial", "Guide", "example", "Examples"}
      GettingTokens == {"Getting", "getting"}
      StartedTokens == {"Started", "started"}
      ChapterTokens == {"Step", "step", "STEP", "Chapter", "Section"}
      \* tokens that are [A-Z][a-z]+, tokens that are two letters or more, and
      \* the last words of the fourth pattern
      CapWordTokens ==
        {"Title", "My", "Config", "Getting", "Started", "Example", "Examples",
         "Usage", "Installation", "Setup", "Configuration", "Tutorial", "Guide",
         "Step", "Chapter", "Section", "Old", "Desc"}
      LetterWordTokens ==
        CapWordTokens \cup {"my", "main", "config", "text", "js", "example", "API",
                            "getting", "started", "step", "STEP"}
      LastWordTokens ==
        {"Example", "example", "Usage", "Guide", "Tutorial", "Setup", "Installation"}
  IN
      LET At(k) == IF k <= Len(title) THEN title[k] ELSE NL
      IN  \/ At(1) \in HeadingWordTokens
          \/ At(1) \in GettingTokens /\ At(2) = " " /\ At(3) \in StartedTokens
          \/ At(1) \in ChapterTokens /\ At(2) = " " /\ At(3) \in DigitTokens
          \/ At(1) \in CapWordTokens /\ At(2) = " " /\ At(3) \in CapWordTokens
          \/ /\ At(1) \in LetterWordTokens /\ At(2) = " "
             /\ At(3) \in LastWordTokens /\ Len(title) = 3

convertCodeBlocks(content) ==
  LET \* the replacement of one CodeBlock element
      CodeBlockReplacement(m) ==
        LET codeMatch == FenceCode(m.codeContent, 1)
            code == IF codeMatch.found THEN codeMatch.code ELSE FlatTrim(m.codeContent)
            hasTitle == OrElse(m.title, Undefined) # Undefined
        IN  IF hasTitle /\ looksLikeHeadingTitle(m.title)
              THEN <<Fence>> \o m.lang \o <<NL>> \o code \o <<NL, Fence>>
              ELSE Colons \o <<"code-block", " ", "lang", "=", "\"">> \o m.lang \o <<"\"">>
                     \o (IF hasTitle
                           THEN <<" ", "title", "=", "\"">> \o m.title \o <<"\"">>
                           ELSE << >>)
                     \o <<NL>> \o code \o <<NL>> \o Colons
  IN
      LET RECURSIVE convertCodeBlocksFrom(_, _)
          convertCodeBlocksFrom(s, p) ==
            LET m == CodeBlockMatch(s, p)
            IN  IF ~m.found THEN SubSeq(s, p, Len(s))
                ELSE SubSeq(s, p, m.start - 1) \o CodeBlockReplacement(m)
                       \o convertCodeBlocksFrom(s, m.end + 1)
      IN  convertCodeBlocksFrom(content, 1)

\* /<Tag[^>]*>([\s\S]*?)<\/Tag>/ for a tag whose opening is the one token
\* open: the first match at or after position p
WrapperMatch(s, p, open, close) ==
  LET q == IndexIn(s, p, {open})
      last == IF q = 0 THEN 0 ELSE IndexIn(s, q + 1, {close})
  IN  IF p > Len(s) \/ q = 0 \/ last = 0 THEN NoMatch
      ELSE [found |-> TRUE, start |-> q, end |-> last,
            inner |-> SubSeq(s, q + 1, last - 1)]

\* the exec loop of stepRegex over stepsContent from position p: a Step tag
\* directly followed by "## ", the title up to the next "<", the content up
\* to the closing tag; each step as title, or title ": " content
RECURSIVE StepEntries(_, _)
StepEntries(s, p) ==
  LET LtTokens ==
        {"<Callout type=\"", "<Banner type=\"", "<CodeBlock lang=\"",
         "<Tabs items={[", "<Tab value=\"", "<Accordion title=\"", "<File name=\"",
         "<Accordions type=\"single\">", "<Steps>", "<Step>", "<Files>",
         "</Callout>", "</Banner>", "</CodeBlock>", "</Tabs>", "</Tab>", "</Steps>",
         "</Step>", "</Accordions>", "</Accordion>", "</Files>", "</File>",
         "<CustomComponent>", "</CustomComponent>"}
  IN
      LET q == IndexIn(s, p, {"<Step>", "<Steps>"})
          n == PrefixNotIn(Drop(s, q + 3), LtTokens)
          last == IndexIn(s, q + 4 + n, {"</Step>"})
          title == FlatTrim(SubSeq(s, q + 4, q + 3 + n))
          content == FlatTrim(SubSeq(s, q + 4 + n, last - 1))
      IN  IF p > Len(s) \/ q = 0 THEN << >>
          ELSE IF q + 3 > Len(s) \/ SubSeq(s, q + 1, q + 3) # <<"#", "#", " ">>
                  \/ n = 0 \/ last = 0
            THEN StepEntries(s, q + 1)
            ELSE <<title \o (IF content # << >> THEN <<":", " ">> \o content ELSE << >>)>>
                   \o StepEntries(s, last + 1)

\* entries.join("\n")
RECURSIVE JoinWithNL(_)
JoinWithNL(entries) ==
  IF Len(entries) <= 1 THEN Flatten(entries)
  ELSE Head(entries) \o <<NL>> \o JoinWithNL(Tail(entries))

convertSteps(content) ==
  LET RECURSIVE convertStepsFrom(_, _)
      convertStepsFrom(s, p) ==
        LET m == WrapperMatch(s, p, "<Steps>", "</Steps>")
            steps == StepEntries(m.inner, 1)
        IN  IF ~m.found THEN SubSeq(s, p, Len(s))
            ELSE SubSeq(s, p, m.start - 1)
                   \o (IF Len(steps) > 0
                         THEN Colons \o <<"steps", NL>> \o JoinWithNL(steps)
                                \o <<NL>> \o Colons
                         ELSE SubSeq(s, m.start, m.end))
                   \o convertStepsFrom(s, m.end + 1)
  IN  convertStepsFrom(content, 1)

convertAccordions(content) ==
  LET \* the exec loop of accordionRegex: title "|" content for each Accordion
      RECURSIVE AccordionEntries(_, _)
      AccordionEntries(s, p) ==
        LET m == ElementMatch(s, p, "<Accordion title=\"", "</Accordion>")
        IN  IF ~m.found THEN << >>
            ELSE <<FlatTrim(m.value) \o <<"|">> \o FlatTrim(m.inner)>>
                   \o AccordionEntries(s, m.end + 1)
  IN
      LET RECURSIVE convertAccordionsFrom(_, _)
          convertAccordionsFrom(s, p) ==
            LET m == WrapperMatch(s, p, "<Accordions type=\"single\">", "</Accordions>")
                accordions == AccordionEntries(m.inner, 1)
            IN  IF ~m.found THEN SubSeq(s, p, Len(s))
                ELSE SubSeq(s, p, m.start - 1)
                       \o (IF Len(accordions) > 0
                             THEN Colons \o <<"accordion", NL>> \o JoinWithNL(accordions)
                                    \o <<NL>> \o Colons
                             ELSE SubSeq(s, m.start, m.end))
                       \o convertAccordionsFrom(s, m.end + 1)
      IN  convertAccordionsFrom(content, 1)

RECURSIVE TabsMatch(_, _)
TabsMatch(s, p) ==
  LET \* tabsRegex tried at position q: the items array up to "]", the end of the
      \* tag, the text up to the first closing tag
      TabsMatchAt(str, q) ==
        LET n == PrefixNotIn(Drop(str, q), {"]}>"})
            tagEnd == q + n + 1
            last == IF tagEnd > Len(str) THEN 0 ELSE IndexIn(str, tagEnd + 1, {"</Tabs>"})
        IN  IF str[q] # "<Tabs items={[" \/ n = 0 \/ last = 0 THEN NoMatch
            ELSE [found |-> TRUE, start |-> q, end |-> last,
                  itemsArray |-> SubSeq(str, q + 1, q + n),
                  inner |-> SubSeq(str, tagEnd + 1, last - 1)]
  IN
      LET q == IndexIn(s, p, {"<Tabs items={["})
      IN  IF p > Len(s) \/ q = 0 THEN NoMatch
          ELSE IF TabsMatchAt(s, q).found THEN TabsMatchAt(s, q)
          ELSE TabsMatch(s, q + 1)

\* JSON.parse of the items array, an array of strings: the strings, or
\* ok |-> FALSE when it throws
RECURSIVE ParseItems(_)
ParseItems(t) ==
  LET a == Drop(t, PrefixIn(t, WhiteTokens))
      n == PrefixNotIn(Tail(a), QuoteTokens)
      rest == Drop(a, n + 2)
      after == Drop(rest, PrefixIn(rest, WhiteTokens))
      more == ParseItems(Tail(after))
  IN  IF a = << >> \/ a[1] # "\"" \/ n + 2 > Len(a) \/ a[n + 2] # "\""
        THEN [ok |-> FALSE, items |-> << >>]
      ELSE IF after = << >> THEN [ok |-> TRUE, items |-> <<SubSeq(a, 2, n + 1)>>]
      ELSE IF after[1] # "," THEN [ok |-> FALSE, items |-> << >>]
      ELSE [ok |-> more.ok, items |-> <<SubSeq(a, 2, n + 1)>> \o more.items]

\* the exec loop of tabRegex: value and trimmed content of each Tab
RECURSIVE TabEntries(_, _)
TabEntries(s, p) ==
  LET m == ElementMatch(s, p, "<Tab value=\"", "</Tab>")
  IN  IF ~m.found THEN << >>
      ELSE << [value |-> m.value, content |-> FlatTrim(m.inner)] >>
             \o TabEntries(s, m.end + 1)

\* the replacement of one Tabs element
TabsReplacement(s, m) ==
  LET \* tabs[item]: the content of the last Tab with the value, or Undefined
      TabOf(tabs, item) ==
        LET ks == { k \in DOMAIN tabs : tabs[k].value = item }
        IN  IF ks = {} THEN Undefined
            ELSE tabs[CHOOSE k \in ks : \A j \in ks : j <= k].content
  IN
      LET parsed == ParseItems(m.itemsArray)
          tabs == TabEntries(m.inner, 1)
          items == SelectSeq(parsed.items,
                     LAMBDA item : OrElse(TabOf(tabs, item), Undefined) # Undefined)
      IN  IF ~parsed.ok THEN SubSeq(s, m.start, m.end)
          ELSE Colons \o <<"tabs", NL>>
                 \o Flatten([k \in DOMAIN items |->
                               items[k] \o <<"|">> \o TabOf(tabs, items[k]) \o <<NL>>])
                 \o Colons

convertTabs(content) ==
  LET RECURSIVE convertTabsFrom(_, _)
      convertTabsFrom(s, p) ==
        LET m == TabsMatch(s, p)
        IN  IF ~m.found THEN SubSeq(s, p, Len(s))
            ELSE SubSeq(s, p, m.start - 1) \o TabsReplacement(s, m)
                   \o convertTabsFrom(s, m.end + 1)
  IN  convertTabsFrom(content, 1)

RECURSIVE FileMatch(_, _)
FileMatch(s, p) ==
  LET \* fileRegex tried at position q: a self-closing File, or a File with the
      \* text up to the first closing tag
      FileMatchAt(str, q) ==
        LET n == PrefixNotIn(Drop(str, q), QuoteTokens)
            c == q + n + 1
        IN  IF str[q] = "<File name=\"" /\ n > 0 /\ c <= Len(str) /\ str[c] = "\" />"
              THEN [found |-> TRUE, start |-> q, end |-> c,
                    value |-> SubSeq(str, q + 1, q + n), inner |-> Undefined]
              ELSE ElementMatchAt(str, q, "<File name=\"", "</File>")
  IN
      LET q == IndexIn(s, p, {"<File name=\""})
      IN  IF p > Len(s) \/ q = 0 THEN NoMatch
          ELSE IF FileMatchAt(s, q).found THEN FileMatchAt(s, q)
          ELSE FileMatch(s, q + 1)

\* "  ".repeat(level)
RECURSIVE Indent(_)
Indent(level) == IF level = 0 THEN << >> ELSE <<" ", " ">> \o Indent(level - 1)

\* the lines array of parseFileStructure(content, level), read from p on; a
\* nested structure is one entry
RECURSIVE FileStructureLines(_, _, _)
FileStructureLines(s, p, level) ==
  LET m == FileMatch(s, p)
      nested == IF m.inner # Undefined /\ FlatTrim(m.inner) # << >>
                  THEN JoinWithNL(FileStructureLines(m.inner, 1, level + 1))
                  ELSE << >>
  IN  IF ~m.found THEN << >>
      ELSE <<Indent(level) \o m.value>>
             \o (IF nested # << >> THEN <<nested>> ELSE << >>)
             \o FileStructureLines(s, m.end + 1, level)

parseFileStructure(content, level) ==
  JoinWithNL(FileStructureLines(content, 1, level))

convertFiles(content) ==
  LET RECURSIVE convertFilesFrom(_, _)
      convertFilesFrom(s, p) ==
        LET m == WrapperMatch(s, p, "<Files>", "</Files>")
        IN  IF ~m.found THEN SubSeq(s, p, Len(s))
            ELSE SubSeq(s, p, m.start - 1)
                   \o Colons \o <<"files", NL>> \o parseFileStructure(m.inner, 0)
                   \o <<NL>> \o Colons
                   \o convertFilesFrom(s, m.end + 1)
  IN  convertFilesFrom(content, 1)

convertComponentsToAnnotations(content) ==
  convertBanners(convertFiles(convertCodeBlocks(convertAccordions(
    convertSteps(convertTabs(convertCallouts(content)))))))

\* reverseTransform(content).content, the content being given by its lines
reverseTransform(content) ==
  LinesOf(convertComponentsToAnnotations(
            removeCodeBlockTitles(FlatOf(removeImports(content)))))

\* ------------------------------------------------------------------ state
VARIABLES
  pc,            \* "scan", "parsed", "transform", "done", "returned";
                 \* "call", "ret" for one call of a function of its own
  lines,         \* parseAnnotations: content.split("\n")
  i,             \* parseAnnotations: loop index (lines scanned so far)
  currentBlock,  \* parseAnnotations: the open block, or NoBlock
  blockContent,  \* parseAnnotations: lines collected for the open block
  blocks,        \* parseAnnotations: blocks returned
  errors,        \* parseAnnotations: errors returned
  componentMappings,   \* AnnotationTransformer.config.componentMappings
  usedImports,         \* AnnotationTransformer.usedImports
  blocksArg,           \* transformAnnotations: the blocks argument
  sortedBlocks,        \* transformAnnotations: sortedBlocks
  done,                \* transformAnnotations: blocks the loop has processed
  transformedContent,  \* transformAnnotations: transformedContent
  transformErrors,     \* transformAnnotations: errors
  returnedImports,     \* per TransformResult returned so far by the instance:
                       \* what its imports field held when it was returned
  validateSyntax,      \* FumadocsTranspiler.config.validateSyntax
  frontmatter,         \* processFile: frontmatter of the file read
  fileNo,              \* number of processFile calls begun on the instance
  finalContent,        \* writeTransformedFile: finalContent
  wrote,               \* writeTransformedFile: fs.writeFile was performed
  result,              \* processFile: the FileProcessingResult, or NoResult
  call,                \* a function called on its own, with its arguments
  ret                  \* what that call returned, or NoRet

parserVars == <<lines, i, currentBlock, blockContent, blocks, errors>>
transformerVars == <<componentMappings, usedImports, blocksArg, sortedBlocks,
                     done, transformedContent, transformErrors>>
fileVars == <<validateSyntax, frontmatter, fileNo, finalContent, wrote, result>>
callVars == <<call, ret>>

otherVars == <<returnedImports, fileVars, callVars>>

vars == <<pc, lines, i, currentBlock, blockContent, blocks, errors,
          componentMappings, usedImports, blocksArg, sortedBlocks, done,
          transformedContent, transformErrors, returnedImports,
          validateSyntax, frontmatter, fileNo, finalContent, wrote, result,
          call, ret>>

LinePools ==
  LET \* the lines the documents are made of: each document draws its lines from
      \* one of these pools
      ScannerPool ==
        { Colons, Colons \o <<" ", "callout-info">>, <<"text">>, << >> }
      ReadmePool ==
        { Colons, Colons \o <<"callout-info">>, Colons \o <<" ", "callout-info">>,
          <<"text">> }
      UnknownPool ==
        { Colons, Colons \o <<" ", "callout-warn">>, Colons \o <<" ", "unknown-type">>,
          <<"text">> }
      CustomPool ==
        { Colons,
          Colons \o <<" ", "code-block", " ", "lang", "=", "\"", "js", "\"">>,
          Colons \o <<" ", "custom-component">>,
          <<"text">> }
      TabsPool ==
        { Colons, Colons \o <<" ", "tabs">>, Colons \o <<" ", "accordion">>,
          <<"a", " ", "|", " ", "b">> }
      StepsPool ==
        { Colons, Colons \o <<" ", "steps">>,
          <<"Step", " ", "1", ":", " ", "text">>, <<"text">> }
      FilesPool ==
        { Colons, Colons \o <<" ", "files">>, <<"src", "/">>, <<" ", " ", "a.ts">> }
      BannerPool ==
        { Colons, Colons \o <<" ", "banner", " ", "type", "=", "warn">>,
          Colons \o <<" ", "banner">>, <<"text">> }
      CalloutPool ==
        { Colons, Colons \o <<" ", "callout-note">>, Colons \o <<" ", "callout-error">>,
          <<"text">> }
  IN
                 {ScannerPool, ReadmePool, UnknownPool, CustomPool, TabsPool,
                  StepsPool, FilesPool, BannerPool, CalloutPool}

Documents ==
  UNION { [1..n -> pool] : n \in 1..MaxLines, pool \in LinePools }

\* componentMappings of the default configuration and of the transformer
\* tests' configuration
DEFAULT_CONFIG ==
  (<<"callout-info">> :> <<"<Callout type=\"info\">", Placeholder, "</Callout>">>)
  @@ (<<"callout-warn">> :> <<"<Callout type=\"warn\">", Placeholder, "</Callout>">>)
  @@ (<<"callout-error">> :> <<"<Callout type=\"error\">", Placeholder, "</Callout>">>)
  @@ (<<"callout-note">> :> <<"<Callout type=\"note\">", Placeholder, "</Callout>">>)

TestConfig ==
  (<<"custom-component">> :>
     <<"<CustomComponent>", Placeholder, "</CustomComponent>">>)

UnclosedError(block, lineNumber) ==
  [message |-> [text |-> "Unclosed annotation block", blockType |-> block.type,
                startedAt |-> block.startLine],
   line |-> lineNumber, type |-> "error", annotation |-> block.type]

\* faulty variant: the stray-closer error carries the loop index, not the line number
StrayCloserErrorIndex(lineNumber) ==
  [message |-> [text |-> "Found closing annotation without opening block",
                blockType |-> Undefined, startedAt |-> 0],
   line |-> lineNumber - 1, type |-> "error", annotation |-> Undefined]

StrayCloserError(lineNumber) ==
  [message |-> [text |-> "Found closing annotation without opening block",
                blockType |-> Undefined, startedAt |-> 0],
   line |-> lineNumber, type |-> "error", annotation |-> Undefined]

ParserInit ==
  /\ lines \in Documents
  /\ i = 0
  /\ currentBlock = NoBlock
  /\ blockContent = << >>
  /\ blocks = << >>
  /\ errors = << >>

\* faulty variant: an opener met while a block is open records no error
ScanOpenerSilent ==
  /\ pc = "scan" /\ i < Len(lines)
  /\ LET line == lines[i + 1]
         lineNumber == i + 1
         openMatch == ANNOTATION_REGEX(line)
     IN  /\ openMatch.matched
         /\ currentBlock' = [type |-> openMatch.type,
                             attributes |-> parseAttributes(openMatch.attributesStr),
                             startLine |-> lineNumber,
                             originalText |-> <<line>>]
         /\ blockContent' = << >>
  /\ i' = i + 1
  /\ UNCHANGED <<pc, lines, blocks, errors, transformerVars, otherVars>>

\* one iteration of the for loop whose line is an opening annotation
ScanOpener ==
  /\ pc = "scan" /\ i < Len(lines)
  /\ LET line == lines[i + 1]
         lineNumber == i + 1
         openMatch == ANNOTATION_REGEX(line)
     IN  /\ openMatch.matched
         /\ errors' = IF currentBlock # NoBlock
                        THEN Append(errors, UnclosedError(currentBlock, lineNumber))
                        ELSE errors
         /\ currentBlock' = [type |-> openMatch.type,
                             attributes |-> parseAttributes(openMatch.attributesStr),
                             startLine |-> lineNumber,
                             originalText |-> <<line>>]
         /\ blockContent' = << >>
  /\ i' = i + 1
  /\ UNCHANGED <<pc, lines, blocks, transformerVars, otherVars>>

\* faulty variant: completing a block leaves currentBlock set
ScanCloserKeepsOpen ==
  /\ pc = "scan" /\ i < Len(lines)
  /\ LET line == lines[i + 1]
         lineNumber == i + 1
     IN  /\ ~ANNOTATION_REGEX(line).matched
         /\ CLOSING_REGEX(line)
         /\ IF currentBlock = NoBlock
              THEN /\ errors' = Append(errors, StrayCloserError(lineNumber))
                   /\ UNCHANGED <<currentBlock, blockContent, blocks>>
              ELSE /\ blocks' = Append(blocks,
                          [type |-> currentBlock.type,
                           content |-> JoinLines(blockContent),
                           attributes |-> currentBlock.attributes,
                           startLine |-> currentBlock.startLine,
                           endLine |-> lineNumber,
                           originalText |-> currentBlock.originalText
                              \o JoinLines(blockContent) \o <<line>>])
                   /\ blockContent' = << >>
                   /\ UNCHANGED <<errors, currentBlock>>
  /\ i' = i + 1
  /\ UNCHANGED <<pc, lines, transformerVars, otherVars>>

\* one iteration of the for loop whose line is the closing annotation
ScanCloser ==
  /\ pc = "scan" /\ i < Len(lines)
  /\ LET line == lines[i + 1]
         lineNumber == i + 1
     IN  /\ ~ANNOTATION_REGEX(line).matched
         /\ CLOSING_REGEX(line)
         /\ IF currentBlock = NoBlock
              THEN /\ errors' = Append(errors, StrayCloserError(lineNumber))
                   /\ UNCHANGED <<currentBlock, blockContent, blocks>>
              ELSE /\ blocks' = Append(blocks,
                          [type |-> currentBlock.type,
                           content |-> JoinLines(blockContent),
                           attributes |-> currentBlock.attributes,
                           startLine |-> currentBlock.startLine,
                           endLine |-> lineNumber,
                           originalText |-> currentBlock.originalText
                              \o JoinLines(blockContent) \o <<line>>])
                   /\ currentBlock' = NoBlock
                   /\ blockContent' = << >>
                   /\ UNCHANGED errors
  /\ i' = i + 1
  /\ UNCHANGED <<pc, lines, transformerVars, otherVars>>

\* faulty variant: blank lines inside a block are not collected
ScanContentSkipBlank ==
  /\ pc = "scan" /\ i < Len(lines)
  /\ LET line == lines[i + 1]
     IN  /\ ~ANNOTATION_REGEX(line).matched
         /\ ~CLOSING_REGEX(line)
         /\ blockContent' = IF currentBlock # NoBlock /\ Trim(line) # << >>
                              THEN Append(blockContent, line) ELSE blockContent
  /\ i' = i + 1
  /\ UNCHANGED <<pc, lines, currentBlock, blocks, errors, transformerVars, otherVars>>

\* one iteration of the for loop whose line is no marker
ScanContent ==
  /\ pc = "scan" /\ i < Len(lines)
  /\ LET line == lines[i + 1]
     IN  /\ ~ANNOTATION_REGEX(line).matched
         /\ ~CLOSING_REGEX(line)
         /\ blockContent' = IF currentBlock # NoBlock
                              THEN Append(blockContent, line) ELSE blockContent
  /\ i' = i + 1
  /\ UNCHANGED <<pc, lines, currentBlock, blocks, errors, transformerVars, otherVars>>

\* faulty variant: the final unclosed-block error carries the last line scanned
ScanEndLastLine ==
  /\ pc = "scan" /\ i = Len(lines)
  /\ errors' = IF currentBlock # NoBlock
                 THEN Append(errors, UnclosedError(currentBlock, i))
                 ELSE errors
  /\ pc' = "parsed"
  /\ UNCHANGED <<lines, i, currentBlock, blockContent, blocks, transformerVars, otherVars>>

\* after the loop: the check for an unclosed block, and the return
ScanEnd ==
  /\ pc = "scan" /\ i = Len(lines)
  /\ errors' = IF currentBlock # NoBlock
                 THEN Append(errors,
                        UnclosedError(currentBlock, currentBlock.startLine))
                 ELSE errors
  /\ pc' = "parsed"
  /\ UNCHANGED <<lines, i, currentBlock, blockContent, blocks, transformerVars, otherVars>>

TransformerInit ==
  LET Configs == {DEFAULT_CONFIG, TestConfig}
  IN
      /\ componentMappings \in Configs
      /\ usedImports = {}
      /\ blocksArg = << >>
      /\ sortedBlocks = << >>
      /\ done = 0
      /\ transformedContent = << >>
      /\ transformErrors = << >>
      /\ returnedImports = << >>

\* transformAnnotations(content, blocks) up to the loop, called with the
\* scanned content and its blocks in any order
TransformStart ==
  LET \* the sequences that hold the elements of s in some order
      Orderings(s) ==
        { [k \in DOMAIN s |-> s[p[k]]] : p \in Permutations(DOMAIN s) }
  IN
      /\ pc = "parsed"
      /\ blocksArg' \in Orderings(blocks)
      /\ transformErrors' = << >>
      /\ transformedContent' = lines
      /\ usedImports' = {}
      /\ sortedBlocks' = SortByStartLineDesc(blocksArg')
      /\ done' = 0
      /\ pc' = "transform"
      /\ UNCHANGED <<parserVars, otherVars, componentMappings>>

\* one iteration of the loop over sortedBlocks: the try branch
TransformBlockOk ==
  /\ pc = "transform" /\ done < Len(sortedBlocks)
  /\ LET block == sortedBlocks[done + 1]
         transformed == transformBlock(componentMappings, block)
     IN  /\ ~transformed.threw
         /\ usedImports' = usedImports \cup transformed.imports
         /\ transformedContent' =
              replaceBlockInContent(transformedContent, block, transformed.markup)
  /\ done' = done + 1
  /\ UNCHANGED <<pc, parserVars, otherVars, componentMappings, blocksArg, sortedBlocks,
                 transformErrors>>

\* one iteration of the loop over sortedBlocks: the catch branch
TransformBlockThrows ==
  /\ pc = "transform" /\ done < Len(sortedBlocks)
  /\ LET block == sortedBlocks[done + 1]
         transformed == transformBlock(componentMappings, block)
     IN  /\ transformed.threw
         /\ transformErrors' = Append(transformErrors, FailedToTransformError(block))
  /\ done' = done + 1
  /\ UNCHANGED <<pc, parserVars, otherVars, componentMappings, usedImports, blocksArg,
                 sortedBlocks, transformedContent>>

\* the return of transformAnnotations
TransformReturn ==
  /\ pc = "transform" /\ done = Len(sortedBlocks)
  /\ pc' = "done"
  /\ returnedImports' = Append(returnedImports, usedImports)
  /\ UNCHANGED <<parserVars, transformerVars, fileVars, callVars>>

\* values of result, finalContent, call and ret while there is none
NoResult == [success |-> FALSE, errors |-> <<"#none">>]
NoContent == <<"#none">>
NoCall == [fn |-> "none"]
NoRet == <<"#none">>

\* one processFile call on a fresh instance, before its file is written
FileInit ==
  /\ validateSyntax = TRUE
  /\ frontmatter = << >>
  /\ fileNo = 1
  /\ finalContent = NoContent
  /\ wrote = FALSE
  /\ result = NoResult

\* no function is called on its own
CallIdle == call = NoCall /\ ret = NoRet

Init ==
  /\ pc = "scan" /\ ParserInit /\ TransformerInit /\ FileInit /\ CallIdle

Next ==
  \/ ScanOpener \/ ScanCloser \/ ScanContent \/ ScanEnd
  \/ TransformStart \/ TransformBlockOk \/ TransformBlockThrows
  \/ TransformReturn

Spec == Init /\ [][Next]_vars

\* ------------------------------------------- processFile, file after file
FileDocuments ==
  LET \* the lines of the files processed one after the other by one instance
      FilePool ==
        { Colons, Colons \o <<" ", "callout-info">>, Colons \o <<" ", "tabs">>,
          Colons \o <<" ", "unknown-type">>, <<"#", " ", "Title">> }
  IN  UNION { [1..n -> FilePool] : n \in 1..MaxFileLines }

\* parsed.data of the file read, and options.description
Frontmatters == { << >>, <<FmEntry(<<"author">>, TRUE, <<"me">>)>> }
Descriptions == { Undefined, <<"Desc">> }

\* the Set usedImports in its insertion order after the loop over the blocks
RECURSIVE ImportsInOrder(_, _, _)
ImportsInOrder(mappings, bs, imports) ==
  IF bs = << >> THEN imports
  ELSE LET transformed == transformBlock(mappings, Head(bs))
           added == IF transformed.threw THEN {}
                    ELSE transformed.imports \ { imports[k] : k \in DOMAIN imports }
       IN  ImportsInOrder(mappings, Tail(bs),
             IF added = {} THEN imports
             ELSE Append(imports, CHOOSE x \in added : TRUE))

\* the error entry of the catch blocks of processFile and writeTransformedFile
FileError(text) ==
  [message |-> [text |-> text, blockType |-> Undefined, startedAt |-> 0],
   line |-> 0, type |-> "error", annotation |-> Undefined]

\* writeTransformedFile: the final content, whether fs.writeFile ran, and
\* the result; fsThrows tells whether ensureDir, copy or writeFile throws
writeTransformedFile(content, imports, fm, dryRun, description, fsThrows) ==
  LET final == generateFinalContent(content, imports, fm, description, FALSE)
  IN  IF dryRun
        THEN [finalContent |-> final, wrote |-> FALSE, success |-> TRUE,
              errors |-> << >>]
      ELSE IF fsThrows
        THEN [finalContent |-> final, wrote |-> FALSE, success |-> FALSE,
              errors |-> <<FileError("Failed to write file")>>]
        ELSE [finalContent |-> final, wrote |-> TRUE, success |-> TRUE,
              errors |-> << >>]

\* processFile: readMarkdownFile throws, and the catch returns
ReadFileThrows ==
  /\ pc = "scan" /\ i = 0
  /\ result' = [success |-> FALSE,
                errors |-> <<FileError("Failed to process file")>>]
  /\ pc' = "returned"
  /\ UNCHANGED <<parserVars, transformerVars, returnedImports, validateSyntax,
                 frontmatter, fileNo, finalContent, wrote, callVars>>

\* processFile after transformAnnotations has returned: the validation
\* errors of the blocks (collected before the transformation, from the same
\* blocks), writeTransformedFile, and the result with all the errors
ProcessFileWriteWith(dryRun) ==
  /\ pc = "done"
  /\ \E description \in Descriptions, fsThrows \in BOOLEAN :
       LET validationErrors ==
             IF validateSyntax
               THEN Flatten([k \in DOMAIN blocks |-> validateAnnotation(blocks[k])])
               ELSE << >>
           writeResult ==
             writeTransformedFile(transformedContent,
               ImportsInOrder(componentMappings, sortedBlocks, << >>),
               frontmatter, dryRun, description, fsThrows)
       IN  /\ finalContent' = writeResult.finalContent
           /\ wrote' = writeResult.wrote
           /\ result' = [success |-> writeResult.success,
                         errors |-> errors \o validationErrors
                                      \o transformErrors \o writeResult.errors]
  /\ pc' = "returned"
  /\ UNCHANGED <<parserVars, transformerVars, returnedImports, validateSyntax,
                 frontmatter, fileNo, callVars>>

\* processFile called with any options
ProcessFileWrite == \E dryRun \in BOOLEAN : ProcessFileWriteWith(dryRun)

\* the loop of processFiles: processFile is called for the next file, on
\* the same parser and transformer
NextInputFile ==
  /\ pc = "returned" /\ fileNo < MaxFiles
  /\ fileNo' = fileNo + 1
  /\ lines' \in FileDocuments
  /\ frontmatter' \in Frontmatters
  /\ i' = 0 /\ currentBlock' = NoBlock /\ blockContent' = << >>
  /\ blocks' = << >> /\ errors' = << >>
  /\ blocksArg' = << >> /\ sortedBlocks' = << >> /\ done' = 0
  /\ transformedContent' = << >> /\ transformErrors' = << >>
  /\ finalContent' = NoContent /\ wrote' = FALSE /\ result' = NoResult
  /\ pc' = "scan"
  /\ UNCHANGED <<componentMappings, usedImports, returnedImports,
                 validateSyntax, callVars>>

InitFiles ==
  /\ pc = "scan"
  /\ lines \in FileDocuments
  /\ i = 0 /\ currentBlock = NoBlock /\ blockContent = << >>
  /\ blocks = << >> /\ errors = << >>
  /\ componentMappings = DEFAULT_CONFIG
  /\ usedImports = {} /\ blocksArg = << >> /\ sortedBlocks = << >> /\ done = 0
  /\ transformedContent = << >> /\ transformErrors = << >>
  /\ returnedImports = << >>
  /\ validateSyntax \in BOOLEAN
  /\ frontmatter \in Frontmatters
  /\ fileNo = 1 /\ finalContent = NoContent /\ wrote = FALSE
  /\ result = NoResult
  /\ CallIdle

NextFiles ==
  \/ ScanOpener \/ ScanCloser \/ ScanContent \/ ScanEnd
  \/ TransformStart \/ TransformBlockOk \/ TransformBlockThrows
  \/ TransformReturn
  \/ ReadFileThrows \/ ProcessFileWrite \/ NextInputFile

SpecFiles == InitFiles /\ [][NextFiles]_vars

\* ------------------------------------------- one call of generateFinalContent
\* the parser, the transformer and processFile at rest while a function is
\* called on its own
AtRest ==
  /\ lines = << >> /\ i = 0 /\ currentBlock = NoBlock /\ blockContent = << >>
  /\ blocks = << >> /\ errors = << >>
  /\ componentMappings = DEFAULT_CONFIG
  /\ usedImports = {} /\ blocksArg = << >> /\ sortedBlocks = << >> /\ done = 0
  /\ transformedContent = << >> /\ transformErrors = << >>
  /\ returnedImports = << >>
  /\ FileInit

AssembleCalls ==
  LET \* the lines of the content handed to generateFinalContent
      AssemblePool ==
        { <<"#", " ", "Title">>, <<" ", "#", " ", " ", "T", " ">>, <<"text">>, << >> }
      AssembleContents == UNION { [1..n -> AssemblePool] : n \in 1..MaxAssembleLines }
      \* the Set of imports in insertion order, the frontmatter read and the
      \* description option
      AssembleImports == { << >>, <<CalloutImport>>, <<TabsImport, CalloutImport>> }
      AssembleFrontmatters ==
        { << >>,
          <<FmEntry(<<"title">>, TRUE, <<"Old">>)>>,
          <<FmEntry(<<"title">>, TRUE, << >>)>>,
          <<FmEntry(<<"order">>, FALSE, <<"3">>)>>,
          <<FmEntry(<<"order">>, FALSE, <<"3">>), FmEntry(<<"title">>, TRUE, <<"Old">>)>> }
      AssembleDescriptions == { Undefined, << >>, <<"Desc">> }
  IN
      [fn : {"generateFinalContent"}, content : AssembleContents,
       imports : AssembleImports, frontmatter : AssembleFrontmatters,
       description : AssembleDescriptions, reverse : BOOLEAN]

\* faulty variant: the import section comes before the frontmatter block
GenerateFinalContentImportsFirst ==
  /\ pc = "call" /\ call.fn = "generateFinalContent"
  /\ ret' = LET out == generateFinalContent(call.content, << >>,
                         call.frontmatter, call.description, call.reverse)
                 n == Len(call.imports)
             IN  IF call.reverse \/ n = 0 THEN out
                 ELSE [k \in 1..n |-> <<call.imports[k]>>] \o << << >> >> \o out
  /\ pc' = "ret"
  /\ UNCHANGED <<parserVars, transformerVars, returnedImports, fileVars, call>>

\* generateFinalContent called by writeTransformedFile (reverse false) or by
\* writeReverseTransformedFile (reverse true)
GenerateFinalContent ==
  /\ pc = "call" /\ call.fn = "generateFinalContent"
  /\ ret' = generateFinalContent(call.content, call.imports, call.frontmatter,
                                 call.description, call.reverse)
  /\ pc' = "ret"
  /\ UNCHANGED <<parserVars, transformerVars, returnedImports, fileVars, call>>

InitAssemble ==
  /\ pc = "call" /\ AtRest
  /\ call \in AssembleCalls /\ ret = NoRet

NextAssemble == GenerateFinalContent

SpecAssemble == InitAssemble /\ [][NextAssemble]_vars

\* ---------------------------------------------- one call of reverseTransform
ReverseCalls ==
  LET \* the MDX handed to reverseTransform: a Callout or a CodeBlock element as
      \* the emitters write it, between lines of ordinary text
      CalloutKinds == {"info", "warn", "error", "note"}
      BodyPool == { <<"Be", " ", "careful">>, <<" ", "text", " ">>, <<"text">>, << >> }
      Bodies == UNION { [1..n -> BodyPool] : n \in 1..MaxBodyLines }
      CodePool == { <<"a">>, <<" ", "b">>, << >> }
      Codes == UNION { [1..n -> CodePool] : n \in 1..(MaxBodyLines - 1) }
      Langs == { <<"js">>, <<"text">> }
      Titles ==
        { Undefined, <<"Example">>, <<"Getting", " ", "Started">>, <<"Step", " ", "1">>,
          <<"My", " ", "Config">>, <<"my", " ", "example">>, <<"main", ".", "js">>,
          <<"config">> }
      Around == { << >>, << <<"text">> >> }
      \* the attributes object of a code-block annotation with the language and
      \* the title
      CodeBlockAttributes(lang, title) ==
        IF title = Undefined THEN (<<"lang">> :> lang)
        ELSE (<<"lang">> :> lang) @@ (<<"title">> :> title)
  IN
      { [fn |-> "reverseTransform", element |-> "Callout", type |-> <<k>>,
         title |-> Undefined, body |-> b, before |-> x, after |-> y,
         content |-> x \o transformCallout(b, k).markup \o y] :
          k \in CalloutKinds, b \in Bodies, x \in Around, y \in Around }
      \cup
      { [fn |-> "reverseTransform", element |-> "CodeBlock", type |-> l,
         title |-> t, body |-> c, before |-> x, after |-> y,
         content |-> x \o transformCodeBlock(c, CodeBlockAttributes(l, t)).markup
                       \o y] :
          l \in Langs, t \in Titles, c \in Codes, x \in Around, y \in Around }

ReverseTransform ==
  /\ pc = "call" /\ call.fn = "reverseTransform"
  /\ ret' = reverseTransform(call.content)
  /\ pc' = "ret"
  /\ UNCHANGED <<parserVars, transformerVars, returnedImports, fileVars, call>>

InitReverse ==
  /\ pc = "call" /\ AtRest
  /\ call \in ReverseCalls /\ ret = NoRet

NextReverse == ReverseTransform

SpecReverse == InitReverse /\ [][NextReverse]_vars

\* ------------------------------- transformAnnotations, then reverseTransform
RoundTripDocuments ==
  LET \* the lines of the documents taken forward and back
      RoundTripPool ==
        { Colons, Colons \o <<" ", "steps">>,
          Colons \o <<" ", "code-block", " ", "lang", "=", "\"", "js", "\"">>,
          Colons \o <<" ", "unknown-type">>,
          <<"Step", " ", "1", ":", " ", "text">>, <<"text">> }
  IN  UNION { [1..n -> RoundTripPool] : n \in 1..MaxRoundTripLines }

\* reverseTransform called with the content that transformAnnotations
\* returned
ReverseTransformOutput ==
  /\ pc = "done"
  /\ ret' = reverseTransform(transformedContent)
  /\ pc' = "ret"
  /\ UNCHANGED <<parserVars, transformerVars, returnedImports, fileVars, call>>

InitRoundTrip ==
  /\ pc = "scan"
  /\ lines \in RoundTripDocuments
  /\ i = 0 /\ currentBlock = NoBlock /\ blockContent = << >>
  /\ blocks = << >> /\ errors = << >>
  /\ componentMappings = DEFAULT_CONFIG
  /\ usedImports = {} /\ blocksArg = << >> /\ sortedBlocks = << >> /\ done = 0
  /\ transformedContent = << >> /\ transformErrors = << >>
  /\ returnedImports = << >>
  /\ FileInit /\ CallIdle

NextRoundTrip ==
  \/ ScanOpener \/ ScanCloser \/ ScanContent \/ ScanEnd
  \/ TransformStart \/ TransformBlockOk \/ TransformBlockThrows
  \/ TransformReturn
  \/ ReverseTransformOutput

SpecRoundTrip == InitRoundTrip /\ [][NextRoundTrip]_vars

\* ------------------------------------------- one call of one pure function
\* the block parseAnnotations builds from an opener with the type and the
\* attribute text at line startLine, the body lines and a closer
BlockOf(type, attributesStr, body, startLine) ==
  LET opener == Colons \o <<" ">> \o type
                  \o (IF attributesStr = << >> THEN << >> ELSE <<" ">> \o attributesStr)
  IN  [type |-> type,
       content |-> JoinLines(body),
       attributes |-> parseAttributes(attributesStr),
       startLine |-> startLine,
       endLine |-> startLine + Len(body) + 1,
       originalText |-> <<opener>> \o JoinLines(body) \o <<Colons>>]

ValidateCalls ==
  LET Kinds == { <<"callout-info">>, <<"callout-warn">>, <<"callout-error">>,
                 <<"callout-note">>, <<"tabs">>, <<"steps">>, <<"accordion">>,
                 <<"code-block">>, <<"files">>, <<"banner">>, <<"unknown-type">> }
      AttributeTexts ==
        { << >>, <<"lang", "=", "\"", "js", "\"">>, <<"type", "=", "warn">>,
          <<"lang", "=", "\"", "\"">>, <<"title", "=", "\"", "text", "\"">> }
      BodyPool ==
        { << >>, <<" ">>, <<"text">>, <<"a", " ", "|", " ", "b">>,
          <<"Step", " ", "1", ":", " ", "text">>, <<" ", "step", " ", "2", ":">>,
          <<"Step", "1", ":", " ", "text">>, <<"Step", " ", ":", " ", "text">> }
      Bodies == UNION { [1..n -> BodyPool] : n \in 0..MaxCallLines }
  IN  { [fn |-> "validateAnnotation", block |-> BlockOf(k, a, b, n)] :
          k \in Kinds, a \in AttributeTexts, b \in Bodies, n \in {1, 3} }

ValidateAnnotation ==
  /\ pc = "call" /\ call.fn = "validateAnnotation"
  /\ ret' = validateAnnotation(call.block)
  /\ pc' = "ret"
  /\ UNCHANGED <<parserVars, transformerVars, returnedImports, fileVars, call>>

\* the contents handed to parseFilesContent
ParseFilesCalls ==
  LET FilesPool ==
        { <<"src", "/">>, <<" ", " ", "a.ts">>, <<" ", " ", "lib", "/">>,
          <<" ", " ", " ", " ", "b.ts">>, <<"c.ts">>, <<" ">> }
  IN  { [fn |-> "parseFilesContent", content |-> c] :
          c \in UNION { [1..n -> FilesPool] : n \in 1..MaxFilesLines } }

\* one iteration of the for loop of parseFilesContent; ret holds the locals
\* nodes and stack and the lines still to come
ParseFilesLine ==
  /\ pc = "call" /\ call.fn = "parseFilesContent"
  /\ ret.rest # << >>
  /\ ret' = [nodes |-> FilesLine(ret, Head(ret.rest)).nodes,
             stack |-> FilesLine(ret, Head(ret.rest)).stack,
             rest |-> Tail(ret.rest)]
  /\ UNCHANGED <<pc, parserVars, transformerVars, returnedImports, fileVars, call>>

\* return nodes
ParseFilesReturn ==
  /\ pc = "call" /\ call.fn = "parseFilesContent"
  /\ ret.rest = << >>
  /\ ret' = ret.nodes
  /\ pc' = "ret"
  /\ UNCHANGED <<parserVars, transformerVars, returnedImports, fileVars, call>>

\* the attribute texts handed to parseAttributes: attributes key="value" and
\* key=value, separated by a space
ParseAttributesCalls ==
  LET Attribute(key, value, quoted) == [key |-> key, value |-> value, quoted |-> quoted]
      Attributes ==
        { Attribute(<<"k">>, <<"v">>, FALSE), Attribute(<<"k">>, <<"w">>, FALSE),
          Attribute(<<"v">>, <<"w">>, FALSE),
          Attribute(<<"k">>, <<"v", " ", "w">>, TRUE),
          Attribute(<<"k">>, << >>, TRUE), Attribute(<<"w">>, <<"k">>, TRUE) }
      Text(a) == a.key \o <<"=">>
                   \o (IF a.quoted THEN <<"\"">> \o a.value \o <<"\"">> ELSE a.value)
      RECURSIVE Joined(_)
      Joined(as) ==
        IF Len(as) = 1 THEN Text(as[1]) ELSE Text(Head(as)) \o <<" ">> \o Joined(Tail(as))
  IN  { [fn |-> "parseAttributes", written |-> as, attributesStr |-> Joined(as)] :
          as \in UNION { [1..n -> Attributes] : n \in 1..MaxAttributes } }

ParseAttributes ==
  /\ pc = "call" /\ call.fn = "parseAttributes"
  /\ ret' = parseAttributes(call.attributesStr)
  /\ pc' = "ret"
  /\ UNCHANGED <<parserVars, transformerVars, returnedImports, fileVars, call>>

\* convertFiles called with the markup transformFiles emitted for a listing
ConvertFilesEmitted ==
  /\ pc = "call" /\ call.fn = "convertFiles"
  /\ ret' = LinesOf(convertFiles(FlatOf(transformFiles(call.content).markup)))
  /\ pc' = "ret"
  /\ UNCHANGED <<parserVars, transformerVars, returnedImports, fileVars, call>>

InitCalls ==
  /\ pc = "call" /\ AtRest
  /\ call \in ValidateCalls \cup ParseFilesCalls \cup ParseAttributesCalls
               \cup { [fn |-> "convertFiles", content |-> c.content] :
                        c \in ParseFilesCalls }
  /\ ret = IF call.fn = "parseFilesContent"
             THEN [nodes |-> << >>, stack |-> << >>,
                   rest |-> NonBlankLines(call.content)]
             ELSE NoRet

NextCalls ==
  \/ ValidateAnnotation
  \/ ParseFilesLine \/ ParseFilesReturn
  \/ ParseAttributes
  \/ ConvertFilesEmitted

SpecCalls == InitCalls /\ [][NextCalls]_vars

\* ------------------------------------- one file of a run of the command line
\* processFile as the run calls it: processFiles passes the options of the
\* command line, the "change" and "add" handlers of watchFiles pass
\* { ...options, dryRun: false }
ProcessFileOfRun ==
  /\ call.fn \in {"processFiles", "watchFiles"}
  /\ \E dryRun \in { IF call.fn = "watchFiles" THEN FALSE ELSE call.dryRun } :
       ProcessFileWriteWith(dryRun)

\* the files of the run: the documents of FileDocuments, and documents with
\* an ordinary fenced code block after up to MaxHeadingLines lines of headings
\* and text
InitCli ==
  /\ call \in { [fn |-> f, reverse |-> FALSE, dryRun |-> d] :
                  f \in {"processFiles", "watchFiles"}, d \in BOOLEAN }
  /\ ret = NoRet
  /\ pc = "scan"
  /\ lines \in
       LET HeadingPool == { <<"#", " ", "Guide">>, <<"##", " ", "Install">>,
                            <<"###", " ", "Usage">>, <<"text">> }
           OpeningFences == { <<Fence, "bash">>,
                              <<Fence, "bash", " title=\"", "Mine", "\"">> }
           FenceDocuments ==
             { before \o <<opening, <<"npm">>, <<Fence>> >> :
                 before \in UNION { [1..n -> HeadingPool] : n \in 0..MaxHeadingLines },
                 opening \in OpeningFences }
       IN  FileDocuments \cup FenceDocuments
  /\ i = 0 /\ currentBlock = NoBlock /\ blockContent = << >>
  /\ blocks = << >> /\ errors = << >>
  /\ componentMappings = DEFAULT_CONFIG
  /\ usedImports = {} /\ blocksArg = << >> /\ sortedBlocks = << >> /\ done = 0
  /\ transformedContent = << >> /\ transformErrors = << >>
  /\ returnedImports = << >>
  /\ validateSyntax = TRUE
  /\ frontmatter \in Frontmatters
  /\ fileNo = 1 /\ finalContent = NoContent /\ wrote = FALSE
  /\ result = NoResult

NextCli ==
  \/ ScanOpener \/ ScanCloser \/ ScanContent \/ ScanEnd
  \/ TransformStart \/ TransformBlockOk \/ TransformBlockThrows
  \/ TransformReturn
  \/ ReadFileThrows \/ ProcessFileOfRun

SpecCli == InitCli /\ [][NextCli]_vars

\* ------------------------------------ reverseTransform, then parseAnnotations
\* parseAnnotations is handed the text reverseTransform returned
ScanReverseOutput ==
  /\ pc = "call" /\ call.fn = "reverseTransform"
  /\ ret' = reverseTransform(call.content)
  /\ lines' = ret'
  /\ pc' = "scan"
  /\ UNCHANGED <<i, currentBlock, blockContent, blocks, errors, transformerVars,
                 returnedImports, fileVars, call>>

\* the MDX of ReverseCalls, and Banner elements as transformBanner writes
\* them, alone or after an annotation block that was never taken forward
InitBack ==
  /\ pc = "call" /\ AtRest /\ ret = NoRet
  /\ call \in
       LET BannerCalls ==
             { [fn |-> "reverseTransform", element |-> "Banner", type |-> <<k>>,
                title |-> Undefined, body |-> <<b>>, before |-> x, after |-> y,
                content |-> x \o transformBanner(<<b>>, (<<"type">> :> <<k>>)).markup
                              \o y] :
                 k \in {"info", "warning"}, b \in { <<"text">>, <<" ", "text">> },
                 x \in { << >>, << <<"text">> >> }, y \in { << >>, << <<"text">> >> } }
           Annotation == << Colons \o <<" ", "callout-warn">>, <<"text">>, Colons >>
       IN  { [c EXCEPT !.before = p \o c.before, !.content = p \o c.content] :
               c \in ReverseCalls \cup BannerCalls, p \in { << >>, Annotation } }

NextBack ==
  \/ ScanReverseOutput
  \/ ScanOpener \/ ScanCloser \/ ScanContent \/ ScanEnd

SpecBack == InitBack /\ [][NextBack]_vars

\* ------------------------------- watchFiles: overlapping processFile calls
\* Each "change" or "add" event starts processFile on the one instance. An
\* invocation runs until its next await: it is suspended in readMarkdownFile
\* ("read"), then runs parseAnnotations, transformAnnotations and the start
\* of writeTransformedFile, generateFinalContent included, in one piece, and
\* is suspended in fs.ensureDir / fs.writeFile ("write"). ret holds the
\* locals of each invocation, usedImports is the transformer's one Set.

\* watcher.on("change" | "add"): processFile is called and awaits
\* readMarkdownFile
WatchEvent(p) ==
  LET \* the files that change: blocks one after the other, as parseAnnotations
      \* returns them
      WatchedFiles ==
        LET Kinds == { <<"callout-info">>, <<"steps">> }
            BodyOf(kind) ==
              IF kind = <<"steps">> THEN <<"Step", " ", "1", ":", " ", "text">>
              ELSE <<"text">>
            BlocksOf(kinds) ==
              [k \in DOMAIN kinds |->
                 BlockOf(kinds[k], << >>, <<BodyOf(kinds[k])>>, 3 * (k - 1) + 1)]
        IN  { [blocks |-> BlocksOf(kinds),
               content |-> Flatten([k \in DOMAIN kinds |->
                                      BlocksOf(kinds)[k].originalText])] :
                kinds \in UNION { [1..n -> Kinds] : n \in 0..MaxEventBlocks } }
  IN
      /\ call.fn = "watch" /\ ret[p].at = "idle"
      /\ \E file \in WatchedFiles :
           ret' = [ret EXCEPT ![p] = [@ EXCEPT !.at = "read", !.file = file]]
      /\ UNCHANGED <<pc, parserVars, transformerVars, returnedImports, fileVars, call>>

\* readMarkdownFile settles: it throws and processFile returns, or the
\* invocation parses, transforms (usedImports is cleared and filled) and
\* assembles the final content from the Set transformAnnotations returned,
\* then awaits the file system
ProcessFileTransforms(p) ==
  /\ call.fn = "watch" /\ ret[p].at = "read"
  /\ \E readThrows \in BOOLEAN :
       IF readThrows
         THEN /\ ret' = [ret EXCEPT ![p] = [@ EXCEPT !.at = "returned"]]
              /\ UNCHANGED usedImports
         ELSE LET sorted == SortByStartLineDesc(ret[p].file.blocks)
                  RECURSIVE Replaced(_, _)
                  Replaced(content, bs) ==
                    IF bs = << >> THEN content
                    ELSE LET transformed == transformBlock(componentMappings, Head(bs))
                         IN  Replaced(IF transformed.threw THEN content
                                      ELSE replaceBlockInContent(content, Head(bs),
                                                                 transformed.markup),
                                      Tail(bs))
                  imports == ImportsInOrder(componentMappings, sorted, << >>)
              IN  /\ usedImports' = { imports[k] : k \in DOMAIN imports }
                  /\ ret' = [ret EXCEPT ![p] =
                       [@ EXCEPT !.at = "write",
                                 !.transformedContent = Replaced(ret[p].file.content, sorted),
                                 !.finalContent =
                                   generateFinalContent(
                                     Replaced(ret[p].file.content, sorted), imports,
                                     << >>, Undefined, FALSE)]]
  /\ UNCHANGED <<pc, parserVars, componentMappings, blocksArg, sortedBlocks, done,
                 transformedContent, transformErrors, returnedImports, fileVars, call>>

\* faulty variant: the final content is assembled after the await, from what
\* the shared Set holds by then
ProcessFileWritesAssembledLate(p) ==
  /\ call.fn = "watch" /\ ret[p].at = "write"
  /\ \E fsThrows \in BOOLEAN :
       LET RECURSIVE InSomeOrder(_)
           InSomeOrder(set) ==
             IF set = {} THEN << >>
             ELSE LET x == CHOOSE x \in set : TRUE
                  IN  <<x>> \o InSomeOrder(set \ {x})
       IN  ret' = [ret EXCEPT ![p] =
                    [@ EXCEPT !.at = "returned",
                              !.written =
                                IF fsThrows THEN NoContent
                                ELSE generateFinalContent(ret[p].transformedContent,
                                       InSomeOrder(usedImports), << >>, Undefined, FALSE)]]
  /\ UNCHANGED <<pc, parserVars, transformerVars, returnedImports, fileVars, call>>

\* fs.ensureDir and fs.writeFile settle: the final content assembled before
\* the await is in the output file, or the catch returns
ProcessFileWrites(p) ==
  /\ call.fn = "watch" /\ ret[p].at = "write"
  /\ \E fsThrows \in BOOLEAN :
       ret' = [ret EXCEPT ![p] =
                [@ EXCEPT !.at = "returned",
                          !.written = IF fsThrows THEN NoContent
                                      ELSE ret[p].finalContent]]
  /\ UNCHANGED <<pc, parserVars, transformerVars, returnedImports, fileVars, call>>

InitWatch ==
  /\ pc = "watch" /\ AtRest
  /\ call = [fn |-> "watch"]
  /\ ret = [p \in 1..MaxEvents |->
              [at |-> "idle", file |-> [blocks |-> << >>, content |-> << >>],
               transformedContent |-> << >>, finalContent |-> NoContent,
               written |-> NoContent]]

NextWatch ==
  \E p \in 1..MaxEvents :
    \/ WatchEvent(p)
    \/ ProcessFileTransforms(p)
    \/ ProcessFileWrites(p)

SpecWatch == InitWatch /\ [][NextWatch]_vars

\* ----------------------------------------------------------------- claims
IsOpener(line) == ANNOTATION_REGEX(line).matched
IsCloser(line) == ~IsOpener(line) /\ CLOSING_REGEX(line)
Openers(ls) == { j \in DOMAIN ls : IsOpener(ls[j]) }
Closers(ls) == { j \in DOMAIN ls : IsCloser(ls[j]) }
IsUnclosedError(e) == e.message.text = "Unclosed annotation block"
IsStrayCloserError(e) ==
  e.message.text = "Found closing annotation without opening block"
UnclosedErrors == { k \in DOMAIN errors : IsUnclosedError(errors[k]) }
StrayCloserErrors == { k \in DOMAIN errors : IsStrayCloserError(errors[k]) }

\* C1: when the only marker line of the input is one opening marker, the
\* scan returns no block and exactly one error, of kind error, whose line is
\* the opener's line number.
C1_OnlyOpener ==
  (pc # "scan" /\ Closers(lines) = {} /\ Cardinality(Openers(lines)) = 1)
    => /\ blocks = << >>
       /\ Len(errors) = 1
       /\ errors[1].type = "error"
       /\ IsUnclosedError(errors[1])
       /\ errors[1].line \in Openers(lines)

C1_Witness ==
  /\ pc # "scan" /\ Closers(lines) = {} /\ Openers(lines) = {2}
  /\ Len(lines) >= 3 /\ Len(errors) = 1 /\ errors[1].line = 2

\* C2: a closing marker scanned while no block is open appends exactly one
\* error of kind error whose line is the closer's own line, adds no block,
\* and the scan goes on with the next line.
C2_StrayCloser ==
  [][ (pc = "scan" /\ i < Len(lines) /\ IsCloser(lines[i + 1])
         /\ currentBlock = NoBlock)
      => /\ Len(errors') = Len(errors) + 1
         /\ SubSeq(errors', 1, Len(errors)) = errors
         /\ errors'[Len(errors')].type = "error"
         /\ errors'[Len(errors')].line = i + 1
         /\ IsStrayCloserError(errors'[Len(errors')])
         /\ blocks' = blocks
         /\ currentBlock' = NoBlock
         /\ pc' = "scan" /\ i' = i + 1 ]_vars

C2_Witness ==
  /\ StrayCloserErrors # {}
  /\ \E k \in StrayCloserErrors :
        errors[k].line < i /\ IsCloser(lines[errors[k].line])

\* C3: every unclosed-block error carries, in its line field, the start line
\* of the block it reports (the line its message names).
C3_UnclosedLineIsStartLine ==
  \A k \in UnclosedErrors : errors[k].line = errors[k].message.startedAt

\* C4: every opener ends in exactly one of a returned block or an
\* unclosed-block error, every closer in exactly one of a returned block or
\* a stray-closer error; opener, opener, closer, closer gives the unclosed
\* error, then the stray-closer error, and one block for the inner opener.
C4_MarkerAccounting ==
  pc # "scan" =>
    /\ Cardinality(Openers(lines)) = Len(blocks) + Cardinality(UnclosedErrors)
    /\ Cardinality(Closers(lines)) = Len(blocks) + Cardinality(StrayCloserErrors)
    /\ Len(errors) = Cardinality(UnclosedErrors) + Cardinality(StrayCloserErrors)
    /\ (Len(lines) = 4 /\ Openers(lines) = {1, 2} /\ Closers(lines) = {3, 4})
         => /\ Len(errors) = 2
            /\ IsUnclosedError(errors[1]) /\ IsStrayCloserError(errors[2])
            /\ Len(blocks) = 1
            /\ blocks[1].startLine = 2 /\ blocks[1].endLine = 3
            /\ blocks[1].type = ANNOTATION_REGEX(lines[2]).type

C4_Witness ==
  /\ pc # "scan" /\ Len(lines) = 4
  /\ Openers(lines) = {1, 2} /\ Closers(lines) = {3, 4}
  /\ Len(errors) = 2 /\ Len(blocks) = 1

\* C5: a line ":::type" with nothing between the colons and the type name
\* opens a block of that type, as "::: type" does.
NoSpaceOpener(line) ==
  Len(line) = 4 /\ StartsWithColons(line) /\ line[4] \in TypeTokens

C5_NoSpaceOpenerOpens ==
  (i >= 1 /\ NoSpaceOpener(lines[i]))
    => /\ currentBlock # NoBlock
       /\ currentBlock.startLine = i
       /\ currentBlock.type = <<lines[i][4]>>

\* C6: the open block, if any, starts after every returned block ends;
\* every returned block has startLine < endLine; returned blocks are in
\* strictly increasing startLine order and consecutive blocks do not overlap.
C6_BlocksOrdered ==
  /\ \A k \in DOMAIN blocks :
        /\ 1 <= blocks[k].startLine
        /\ blocks[k].startLine < blocks[k].endLine
        /\ blocks[k].endLine <= i
  /\ \A k \in 1..(Len(blocks) - 1) :
        /\ blocks[k].startLine < blocks[k + 1].startLine
        /\ blocks[k].endLine < blocks[k + 1].startLine
  /\ currentBlock # NoBlock =>
        /\ currentBlock.startLine <= i
        /\ \A k \in DOMAIN blocks : blocks[k].endLine < currentBlock.startLine

C6_Witness == Len(blocks) = 2 /\ currentBlock # NoBlock

\* C7: the content of a returned block is the source lines strictly between
\* its startLine and endLine, in order and unmodified, joined by newline.
C7_ContentVerbatim ==
  \A k \in DOMAIN blocks :
    blocks[k].content =
      JoinLines(SubSeq(lines, blocks[k].startLine + 1, blocks[k].endLine - 1))

C7_Witness ==
  \E k \in DOMAIN blocks :
    /\ blocks[k].endLine - blocks[k].startLine - 1 = 3
    /\ blocks[k].content[2] = << >>
    /\ blocks[k].content[1] # << >>
    /\ blocks[k].content[3] # << >>

\* the emitter's outcome for a block under the configuration in force
IsKnown(block) == ~transformBlock(componentMappings, block).threw
MarkupOf(block) == transformBlock(componentMappings, block).markup
SpanOf(block) == block.endLine - block.startLine + 1

\* the source read from line j on, with the markup of each block of bs in
\* place of the block's lines
RECURSIVE ExpectedFrom(_, _)
ExpectedFrom(j, bs) ==
  IF j > Len(lines) THEN << >>
  ELSE IF \E k \in DOMAIN bs : bs[k].startLine = j
    THEN LET k == CHOOSE k \in DOMAIN bs : bs[k].startLine = j
         IN  MarkupOf(bs[k]) \o ExpectedFrom(bs[k].endLine + 1, bs)
    ELSE <<lines[j]>> \o ExpectedFrom(j + 1, bs)

\* C8: when all N blocks of the input are of known types, the output is the
\* source with the N blocks' markup elements in the blocks' places, one per
\* block in source order, and no error is returned.
C8_AllBlocksEmitted ==
  (pc = "done" /\ \A k \in DOMAIN blocks : IsKnown(blocks[k]))
    => /\ transformErrors = << >>
       /\ transformedContent = ExpectedFrom(1, blocks)

C8_Witness ==
  /\ pc = "done" /\ Len(blocks) = 2
  /\ \A k \in DOMAIN blocks : IsKnown(blocks[k])
  /\ blocks[1].type # blocks[2].type
  /\ blocksArg = blocks
  /\ Len(MarkupOf(blocks[1])) # SpanOf(blocks[1])

\* the growth of the text by the substitution of a block
Growth(block) == IF IsKnown(block) THEN Len(MarkupOf(block)) - SpanOf(block) ELSE 0

RECURSIVE TotalGrowth(_)
TotalGrowth(bs) ==
  IF bs = << >> THEN 0 ELSE Growth(Head(bs)) + TotalGrowth(Tail(bs))

\* the place in the output of source line j, which is in no substituted span
PlaceOf(j) ==
  j + TotalGrowth(SelectSeq(blocks, LAMBDA b : b.endLine < j))

InSomeBlock(j) ==
  \E k \in DOMAIN blocks : blocks[k].startLine <= j /\ j <= blocks[k].endLine

\* C9: whatever the order of the blocks argument, blocks are substituted in
\* descending startLine order; when a block is about to be substituted the
\* working text still equals the source up to that block's endLine; and in
\* the output every source line outside all block spans is unchanged and in
\* its place.
C9_DescendingSubstitution ==
  /\ pc \in {"transform", "done"} =>
       /\ Len(sortedBlocks) = Len(blocksArg)
       /\ \A k \in DOMAIN blocksArg : \E m \in DOMAIN sortedBlocks :
            sortedBlocks[m] = blocksArg[k]
       /\ \A k \in 1..(Len(sortedBlocks) - 1) :
            sortedBlocks[k].startLine > sortedBlocks[k + 1].startLine
  /\ (pc = "transform" /\ done < Len(sortedBlocks)) =>
       LET block == sortedBlocks[done + 1]
       IN  Take(transformedContent, block.endLine) = Take(lines, block.endLine)
  /\ pc = "done" =>
       /\ Len(transformedContent) = Len(lines) + TotalGrowth(blocks)
       /\ \A j \in DOMAIN lines :
            ~InSomeBlock(j) => transformedContent[PlaceOf(j)] = lines[j]

C9_Witness ==
  /\ pc = "done" /\ Len(blocks) = 2
  /\ blocksArg = blocks /\ sortedBlocks # blocksArg
  /\ \E j \in DOMAIN lines : ~InSomeBlock(j) /\ PlaceOf(j) # j
  /\ Growth(blocks[1]) # 0

\* C10: each block of a type that is neither built-in nor mapped gives
\* exactly one error, of kind error, with its type and startLine; its source
\* lines are in the output unmodified; and the output is what the call gives
\* for the other blocks alone.
C10_UnknownTypeIsolated ==
  pc = "done" =>
    LET unknown == SelectSeq(sortedBlocks, LAMBDA b : ~IsKnown(b))
        known   == SelectSeq(blocks, IsKnown)
    IN  /\ Len(transformErrors) = Len(unknown)
        /\ \A k \in DOMAIN unknown :
             /\ transformErrors[k].type = "error"
             /\ transformErrors[k].annotation = unknown[k].type
             /\ transformErrors[k].line = unknown[k].startLine
             /\ \A j \in unknown[k].startLine .. unknown[k].endLine :
                  transformedContent[PlaceOf(unknown[k].startLine)
                                       + (j - unknown[k].startLine)] = lines[j]
        /\ transformedContent = ExpectedFrom(1, known)

C10_Witness ==
  /\ pc = "done" /\ Len(blocks) = 2
  /\ ~IsKnown(blocks[2]) /\ IsKnown(blocks[1])
  /\ Growth(blocks[1]) # 0
  /\ Len(transformErrors) = 1

\* the built-in annotation kinds and the import declaration of each kind's
\* component, as the emitters register them
BuiltinKinds ==
  { <<"callout-info">>, <<"callout-warn">>, <<"callout-error">>,
    <<"callout-note">>, <<"tabs">>, <<"steps">>, <<"accordion">>,
    <<"code-block">>, <<"files">>, <<"banner">> }

ImportOfKind(type) ==
  CASE type \in { <<"callout-info">>, <<"callout-warn">>, <<"callout-error">>,
                  <<"callout-note">> } -> CalloutImport
    [] type = <<"tabs">>       -> TabsImport
    [] type = <<"steps">>      -> StepsImport
    [] type = <<"accordion">>  -> AccordionImport
    [] type = <<"code-block">> -> CodeBlockImport
    [] type = <<"files">>      -> FilesImport
    [] type = <<"banner">>     -> BannerImport

\* C11: the imports set that transformAnnotations returns is exactly the set
\* of the import declarations of the built-in kinds of the blocks of that
\* call: one declaration per kind used (the four callout kinds share one),
\* none for a kind that no block used, none for custom or unknown types.
C11_ImportsOfEmittedKinds ==
  pc = "done" =>
    usedImports = { ImportOfKind(blocks[k].type) :
                      k \in { j \in DOMAIN blocks : blocks[j].type \in BuiltinKinds } }

C11_Witness ==
  /\ pc = "done" /\ Len(blocks) = 2
  /\ blocks[1].type = <<"callout-note">>
  /\ blocks[2].type = <<"callout-error">>
  /\ usedImports = {CalloutImport}

\* a call whose blocks are of two kinds with different components, next to
\* a block of a custom type, returns the two kinds' declarations
C11_WitnessTwoKinds ==
  /\ pc = "done" /\ Len(blocks) = 2
  /\ blocks[1].type = <<"code-block">>
  /\ blocks[2].type = <<"custom-component">>
  /\ componentMappings = TestConfig
  /\ usedImports = {CodeBlockImport}

\* the Set that the imports field of the k-th TransformResult refers to: the
\* instance's usedImports, which every result shares
ResultImports(k) == usedImports

\* C12: the TransformResult a call returned (its imports set) is the same
\* after any later transformAnnotations call on the instance as it was when
\* the call returned.
C12_EarlierResultUnchanged ==
  \A k \in DOMAIN returnedImports : ResultImports(k) = returnedImports[k]

\* C13: processFile reports success exactly when the errors it returns hold
\* no entry of kind error; warnings do not count.
C13_SuccessIffNoError ==
  pc = "returned" =>
    (result.success <=>
       \A k \in DOMAIN result.errors : result.errors[k].type # "error")

\* ---- the output of generateFinalContent read back: its frontmatter block,
\* its import section and its body
HasFrontmatterBlock(out) == out[1] = <<"---">>

\* lines of the frontmatter block with the empty line after it, 0 without
FrontmatterLen(out) ==
  IF ~HasFrontmatterBlock(out) THEN 0
  ELSE (CHOOSE k \in 2..Len(out) :
          /\ out[k] = <<"---">>
          /\ \A j \in 2..(k - 1) : out[j] # <<"---">>) + 1

\* the value of the title field of the block (with its quotes), or Undefined
OutTitle(out) ==
  LET IsTitleLine(k) == Len(out[k]) >= 3 /\ Take(out[k], 3) = <<"title", ":", " ">>
      ks == { k \in 2..(FrontmatterLen(out) - 2) : IsTitleLine(k) }
  IN  IF ks = {} THEN Undefined ELSE Drop(out[CHOOSE k \in ks : TRUE], 3)

\* lines of the import section with the empty line after it
ImportsLen(imports) == IF Len(imports) > 0 THEN Len(imports) + 1 ELSE 0

OutBody(out, imports) == Drop(out, FrontmatterLen(out) + ImportsLen(imports))

\* index of the first non-blank line of the content, or 0
FirstNonBlank(content) ==
  LET ks == { k \in DOMAIN content : Trim(content[k]) # << >> }
  IN  IF ks = {} THEN 0 ELSE CHOOSE k \in ks : \A j \in ks : k <= j

LeadingHeading(content) ==
  FirstNonBlank(content) # 0 /\ StartsWithHash(content[FirstNonBlank(content)])

\* the content after its leading heading and the blank lines that follow it
AfterLeadingHeading(content) ==
  LET h == FirstNonBlank(content)
      rest == { k \in (h + 1)..Len(content) : Trim(content[k]) # << >> }
      from == IF rest = {} THEN Len(content) + 1
              ELSE CHOOSE k \in rest : \A j \in rest : k <= j
  IN  JoinLines(SubSeq(content, from, Len(content)))

\* what the frontmatter read says of the title, as the block prints it
InputTitle(fm) ==
  IF FmIndex(fm, <<"title">>) = 0 THEN Undefined
  ELSE <<"\"">> \o fm[FmIndex(fm, <<"title">>)].text \o <<"\"">>

ForwardAssembled == pc = "ret" /\ call.fn = "generateFinalContent" /\ ~call.reverse
ReverseAssembled == pc = "ret" /\ call.fn = "generateFinalContent" /\ call.reverse

\* C14: in forward assembly a title is recorded in the frontmatter exactly
\* when the first non-blank line of the content starts with "# "; the title
\* is then the trimmed remainder of that line, and the line and the blank
\* lines after it are absent from the body. Otherwise the title field is
\* what the file's own frontmatter said and the body is the content.
C14_TitleIffLeadingHeading ==
  ForwardAssembled =>
    IF LeadingHeading(call.content)
      THEN LET line == Trim(call.content[FirstNonBlank(call.content)])
           IN  /\ OutTitle(ret) = <<"\"">> \o Trim(Drop(line, 2)) \o <<"\"">>
               /\ OutBody(ret, call.imports) = AfterLeadingHeading(call.content)
      ELSE /\ OutTitle(ret) = InputTitle(call.frontmatter)
           /\ OutBody(ret, call.imports) = call.content

\* C15 as stated: the output is the frontmatter block, the import section,
\* the body, in this order; the block is there only if the title or the
\* description is non-empty, the import section only if the set is not empty.
C15_BlockOnlyWithTitleOrDescription ==
  ForwardAssembled =>
    (HasFrontmatterBlock(ret) =>
       \/ OutTitle(ret) \notin { Undefined, <<"\"", "\"">> }
       \/ OrElse(call.description, Undefined) # Undefined)

\* C15 amended: the output is the frontmatter block, the import section (one
\* declaration per line, then an empty line), the body, in this order; the
\* block is there exactly when the frontmatter read has a field, or a title
\* was extracted, or the description is non-empty; the import section is
\* there exactly when the set is not empty.
C15_AssemblyOrder ==
  ForwardAssembled =>
    LET n == Len(call.imports)
        at == FrontmatterLen(ret)
        extracted == extractTitleFromContent(call.content) # Undefined
    IN  /\ HasFrontmatterBlock(ret) <=>
              \/ Len(call.frontmatter) > 0
              \/ extracted
              \/ OrElse(call.description, Undefined) # Undefined
        /\ HasFrontmatterBlock(ret) => ret[at] = << >>
        /\ \A k \in 1..n : ret[at + k] = <<call.imports[k]>>
        /\ n > 0 => ret[at + n + 1] = << >>
        /\ OutBody(ret, call.imports) =
              IF extracted THEN removeTitleFromContent(call.content)
              ELSE call.content

C15_Witness ==
  /\ ForwardAssembled
  /\ call.frontmatter = <<FmEntry(<<"order">>, FALSE, <<"3">>)>>
  /\ call.description = Undefined
  /\ Len(call.imports) = 2
  /\ ~LeadingHeading(call.content)
  /\ extractTitleFromContent(call.content) = Undefined
  /\ ret[1] = <<"---">> /\ ret[2] = <<"order", ":", " ", "3">>
  /\ ret[5] = <<TabsImport>>

\* C16: in reverse mode the output is the body preceded by "# " + title and
\* one empty line when the frontmatter has a non-empty title, the body alone
\* otherwise; no frontmatter block, no description and no import
\* declaration is in it.
C16_ReverseAssembly ==
  ReverseAssembled =>
    LET fm == call.frontmatter
        ks == { k \in DOMAIN fm : fm[k].key = <<"title">> /\ fm[k].text # << >> }
    IN  /\ ret = IF ks = {} THEN call.content
                  ELSE << <<"#", " ">> \o fm[CHOOSE k \in ks : TRUE].text, << >> >>
                         \o call.content
        /\ \A k \in DOMAIN ret :
              /\ ret[k] # <<"---">>
              /\ \A j \in DOMAIN call.imports : ret[k] # <<call.imports[j]>>
              /\ \A j \in DOMAIN ret[k] : ret[k][j] \notin {"description", "Desc"}

C16_Witness ==
  /\ ReverseAssembled
  /\ FmIndex(call.frontmatter, <<"title">>) = 2
  /\ call.description = <<"Desc">>
  /\ Len(call.imports) = 2
  /\ ret[1] = <<"#", " ", "Old">> /\ ret[2] = << >>
  /\ Len(ret) = Len(call.content) + 2

\* a text without the white space and the blank lines around it: its lines
\* from the first to the last non-blank one, the first without its leading
\* and the last without its trailing white space; one empty line if all
\* lines are blank
TrimmedText(text) ==
  LET ks == { k \in DOMAIN text : Trim(text[k]) # << >> }
      first == CHOOSE k \in ks : \A j \in ks : k <= j
      last  == CHOOSE k \in ks : \A j \in ks : j <= k
  IN  IF ks = {} THEN << << >> >>
      ELSE [k \in 1..(last - first + 1) |->
             LET line == text[first + k - 1]
                 left == IF k = 1 THEN Drop(line, PrefixIn(line, SpaceTokens))
                         ELSE line
             IN  IF first + k - 1 = last THEN TrimEnd(left) ELSE left]

ReverseReturned(element) ==
  pc = "ret" /\ call.fn = "reverseTransform" /\ call.element = element

\* C18: reverseTransform of a Callout element of type K with body B gives
\* the lines ":::callout-K", B trimmed, ":::" (the text around the element
\* stays); for the emission of the callout-warn annotation with the body
\* "Be careful" these are the three lines of that annotation.
C18_CalloutReverse ==
  ReverseReturned("Callout") =>
    /\ ret = call.before
               \o << Colons \o <<"callout-" \o call.type[1]>> >>
               \o TrimmedText(call.body)
               \o <<Colons>>
               \o call.after
    /\ (call.type = <<"warn">> /\ call.body = << <<"Be", " ", "careful">> >>
          /\ call.before = << >> /\ call.after = << >>)
         => ret = << <<":", ":", ":", "callout-warn">>,
                     <<"Be", " ", "careful">>,
                     <<":", ":", ":">> >>

C18_Witness ==
  /\ ReverseReturned("Callout")
  /\ call.type = <<"warn">>
  /\ call.body = << << >>, <<" ", "text", " ">>, << >> >>
  /\ call.before # << >>
  /\ ret[2] = <<":", ":", ":", "callout-warn">> /\ ret[3] = <<"text">>

\* C19: reverseTransform of a CodeBlock element gives a plain fenced block
\* when the title is heading-like, a code-block annotation with lang and
\* title when the title is not, a code-block annotation with lang alone
\* when there is no title; language and code are unchanged in every case.
C19_CodeBlockReverse ==
  ReverseReturned("CodeBlock") =>
    LET opener ==
          Colons \o <<"code-block", " ", "lang", "=", "\"">> \o call.type \o <<"\"">>
        titleAttribute == <<" ", "title", "=", "\"">> \o call.title \o <<"\"">>
    IN  ret = call.before
               \o (IF call.title = Undefined
                     THEN <<opener>> \o call.body \o <<Colons>>
                   ELSE IF looksLikeHeadingTitle(call.title)
                     THEN << <<Fence>> \o call.type >> \o call.body \o << <<Fence>> >>
                     ELSE <<opener \o titleAttribute>> \o call.body \o <<Colons>>)
               \o call.after

\* what a text says whatever its spacing: its lines without white space and
\* quotes, the blank lines left out
Canon(text) ==
  LET Bare(line) == SelectSeq(line, LAMBDA t : t \notin WhiteTokens \cup {"\""})
  IN  SelectSeq([k \in DOMAIN text |-> Bare(text[k])], LAMBDA line : line # << >>)

\* C17: for an input x made of blocks of the documented types inside
\* ordinary text, reverseTransform of the forward output of x says what x
\* says: the same blocks with the same types, items and bodies, in the same
\* order.
C17_RoundTrip ==
  (/\ pc = "ret" /\ call = NoCall
   /\ errors = << >> /\ transformErrors = << >>
   /\ \A k \in DOMAIN blocks : blocks[k].type \in BuiltinKinds)
    => Canon(ret) = Canon(lines)

\* the lines that replaced the only block of the document
OnlyEmission ==
  SubSeq(transformedContent, blocks[1].startLine,
         Len(transformedContent) - (Len(lines) - blocks[1].endLine))

CalloutTypeOf(type) ==
  CHOOSE t \in {"info", "warn", "error", "note"} : type = <<"callout-" \o t>>

\* the opening tag line of the wrapper of a callout or banner block
WrapperOpen(block) ==
  IF block.type = <<"banner">>
    THEN <<"<Banner type=\"">>
           \o OrElse(Attr(block.attributes, <<"type">>), <<"info">>) \o <<"\">">>
    ELSE <<"<Callout type=\"", CalloutTypeOf(block.type), "\">">>

WrapperClose(block) ==
  IF block.type = <<"banner">> THEN <<"</Banner>">> ELSE <<"</Callout>">>

\* C20: the emission of a callout block, and of a banner block, is one wrapper
\* tag that carries the type and whose children are the block content with
\* leading and trailing white space and blank lines trimmed off.
C20_TrimmedChildren ==
  (/\ pc = "done" /\ errors = << >> /\ transformErrors = << >>
   /\ Len(blocks) = 1
   /\ blocks[1].type \in (BuiltinKinds \ {<<"tabs">>, <<"steps">>, <<"accordion">>,
                                           <<"code-block">>, <<"files">>}))
    => /\ Len(OnlyEmission) >= 2
       /\ OnlyEmission[1] = WrapperOpen(blocks[1])
       /\ OnlyEmission[Len(OnlyEmission)] = WrapperClose(blocks[1])
       /\ SubSeq(OnlyEmission, 2, Len(OnlyEmission) - 1) = TrimmedText(blocks[1].content)

\* the non-blank lines of a text: those with a token that is not white space
ContentLines(text) ==
  SelectSeq(text, LAMBDA line : \E k \in DOMAIN line : line[k] \notin SpaceTokens)

\* the line, its leading white space aside, starts with the word Step, white
\* space, a number and a colon
HasStepForm(line) ==
  \E w, d, c \in DOMAIN line :
    /\ w < d /\ d <= c - 1 /\ w + 1 < d
    /\ \A k \in 1..(w - 1) : line[k] \in SpaceTokens
    /\ line[w] \in StepWordTokens
    /\ \A k \in (w + 1)..(d - 1) : line[k] \in SpaceTokens
    /\ \A k \in d..(c - 1) : line[k] \in DigitTokens
    /\ line[c] = ":"

HasValue(block, key) ==
  /\ key \in DOMAIN block.attributes
  /\ block.attributes[key] \notin {Undefined, << >>}

\* the kind of the entry the claim calls for, "none" for no entry
ExpectedValidation(block) ==
  LET ls == ContentLines(block.content)
      EveryLine(P(_)) == ls # << >> /\ \A k \in DOMAIN ls : P(ls[k])
      WithBar(line) == \E k \in DOMAIN line : line[k] = "|"
      When(cond, kind) == IF cond THEN kind ELSE "none"
  IN  CASE block.type \in {<<"tabs">>, <<"accordion">>} ->
             When(~EveryLine(WithBar), "error")
        [] block.type = <<"steps">> -> When(~EveryLine(HasStepForm), "error")
        [] block.type \in { <<"callout-info">>, <<"callout-warn">>,
                            <<"callout-error">>, <<"callout-note">>, <<"files">> } ->
             When(ls = << >>, "warning")
        [] block.type = <<"code-block">> -> When(~HasValue(block, <<"lang">>), "warning")
        [] block.type = <<"banner">> -> When(~HasValue(block, <<"type">>), "warning")
        [] OTHER -> "warning"

\* C21: validateAnnotation returns at most one entry for a block, with the
\* block's startLine as line and the block's type as annotation: an error for
\* a tabs or accordion block with a non-blank line without "|", for a steps
\* block with a line not of the form "Step N:", and for such a block with no
\* non-blank line; a warning for an empty callout or files content, a
\* code-block without lang, a banner without type and a type that is not
\* built in; no entry otherwise.
C21_ValidationEntries ==
  (pc = "ret" /\ call.fn = "validateAnnotation")
    => /\ Len(ret) <= 1
       /\ (ret = << >>) <=> (ExpectedValidation(call.block) = "none")
       /\ \A k \in DOMAIN ret :
            /\ ret[k].type = ExpectedValidation(call.block)
            /\ ret[k].line = call.block.startLine
            /\ ret[k].annotation = call.block.type

\* a tabs block whose first line lacks the separator and whose second has it
\* was reported as an error at its start line
C21_Witness ==
  /\ pc = "ret" /\ call.fn = "validateAnnotation"
  /\ call.block.type = <<"tabs">> /\ call.block.startLine = 3
  /\ call.block.content = << <<"text">>, <<"a", " ", "|", " ", "b">> >>
  /\ Len(ret) = 1 /\ ret[1].type = "error" /\ ret[1].line = 3

\* the number of white-space tokens a line starts with
Indentation(line) ==
  CHOOSE n \in 0..Len(line) :
    /\ \A k \in 1..n : line[k] \in SpaceTokens
    /\ n < Len(line) => line[n + 1] \notin SpaceTokens

\* what a line of a listing says: its name without the final "/", whether it
\* names a file, and its indentation
ListingEntry(line) ==
  LET first == Indentation(line) + 1
      last == CHOOSE k \in first..Len(line) :
                /\ line[k] \notin SpaceTokens
                /\ \A j \in (k + 1)..Len(line) : line[j] \in SpaceTokens
      isFile == line[last] # "/"
  IN  [name |-> SubSeq(line, first, IF isFile THEN last ELSE last - 1),
       isFile |-> isFile, level |-> Indentation(line)]

\* the nodes of a forest in document order, each with the number of its
\* parent in that order (0 for a root); n nodes are numbered already
RECURSIVE ForestEntries(_, _, _)
ForestEntries(nodes, parent, n) ==
  IF nodes = << >> THEN << >>
  ELSE LET h == Head(nodes)
           below == IF h.children.defined
                      THEN ForestEntries(h.children.items, n + 1, n + 1) ELSE << >>
       IN  << [name |-> h.name, isFile |-> h.isFile, level |-> h.level,
               hasChildren |-> h.children.defined, parent |-> parent] >>
             \o below \o ForestEntries(Tail(nodes), parent, n + 1 + Len(below))

ParseFilesReturned == pc = "ret" /\ call.fn = "parseFilesContent"

\* every non-blank line is one node, in source order, a directory exactly
\* when it carries a children array; the node of line j hangs under the line
\* ParentLine(ls, j), or is a root when that is 0
ForestOfListing(ParentLine(_, _)) ==
  LET ls == ContentLines(call.content)
      es == ForestEntries(ret, 0, 0)
  IN  /\ Len(es) = Len(ls)
      /\ \A j \in DOMAIN ls :
           /\ es[j].name = ListingEntry(ls[j]).name
           /\ es[j].isFile = ListingEntry(ls[j]).isFile
           /\ es[j].level = ListingEntry(ls[j]).level
           /\ es[j].hasChildren = ~es[j].isFile
           /\ es[j].parent = ParentLine(ls, j)

\* the greatest number in S, or 0
Greatest(S) == IF S = {} THEN 0 ELSE CHOOSE x \in S : \A y \in S : y <= x

\* the nearest directory line before line j with a smaller indentation
NearestSmallerDirectory(ls, j) ==
  Greatest({ p \in 1..(j - 1) :
               /\ ~ListingEntry(ls[p]).isFile
               /\ Indentation(ls[p]) < Indentation(ls[j]) })

\* the nearest directory line before line j that is still open at line j:
\* every line after it, up to line j, is indented more than it
NearestOpenDirectory(ls, j) ==
  Greatest({ p \in 1..(j - 1) :
               /\ ~ListingEntry(ls[p]).isFile
               /\ \A k \in (p + 1)..j : Indentation(ls[p]) < Indentation(ls[k]) })

\* C22 as stated: parseFilesContent builds a forest with one node for every
\* non-blank line, in source order, each node under the nearest preceding
\* directory line with a strictly smaller indentation (a root if there is
\* none), directories and only directories carrying a children array.
C22_NearestSmallerParent ==
  ParseFilesReturned => ForestOfListing(NearestSmallerDirectory)

\* C22, amended: the same, each node being under the nearest preceding
\* directory line that is still open (no line from it to the node is indented
\* as little as it or less); and the stack of open ancestors has strictly
\* increasing levels all along; and the listing src/, a.ts and lib/ under
\* it, b.ts under lib/ gives the root src with the children a.ts and lib,
\* lib with the child b.ts.
C22_FilesForest ==
  /\ ParseFilesReturned => ForestOfListing(NearestOpenDirectory)
  /\ (pc = "call" /\ call.fn = "parseFilesContent")
       => \A k \in 1..(Len(ret.stack) - 1) :
            ret.stack[k].level < ret.stack[k + 1].level
  /\ (/\ ParseFilesReturned
      /\ call.content = << <<"src", "/">>, <<" ", " ", "a.ts">>,
                           <<" ", " ", "lib", "/">>,
                           <<" ", " ", " ", " ", "b.ts">> >>)
       => /\ Len(ret) = 1 /\ ret[1].name = <<"src">> /\ ~ret[1].isFile
          /\ Len(ret[1].children.items) = 2
          /\ ret[1].children.items[1].name = <<"a.ts">>
          /\ ret[1].children.items[1].isFile
          /\ ret[1].children.items[2].name = <<"lib">>
          /\ ~ret[1].children.items[2].isFile
          /\ Len(ret[1].children.items[2].children.items) = 1
          /\ ret[1].children.items[2].children.items[1].name = <<"b.ts">>
          /\ ret[1].children.items[2].children.items[1].isFile

\* the listing of the claim was parsed
C22_Witness ==
  /\ ParseFilesReturned
  /\ call.content = << <<"src", "/">>, <<" ", " ", "a.ts">>,
                       <<" ", " ", "lib", "/">>, <<" ", " ", " ", " ", "b.ts">> >>
  /\ Len(ret) = 1

\* C23: parseAttributes maps every key of the attribute text to the string
\* value of the key's last occurrence, for quoted values (with white space,
\* or empty) and for unquoted ones; each key is there once.
C23_LastOccurrenceWins ==
  (pc = "ret" /\ call.fn = "parseAttributes")
    => LET as == call.written
           last(key) == Greatest({ k \in DOMAIN as : as[k].key = key })
       IN  /\ DOMAIN ret = { as[k].key : k \in DOMAIN as }
           /\ \A key \in DOMAIN ret : ret[key] = as[last(key)].value

\* C24: whenever the dry-run option is set, no file operation started by
\* processFiles (processFile, processReverseFile) or watchFiles writes an
\* output file: every result is returned with nothing written.
C24_DryRunWritesNothing ==
  (call.fn \in {"processFiles", "watchFiles"} /\ call.dryRun) => ~wrote

\* the opening line of the first fenced code block of the file, or 0
OpeningFenceLine ==
  IF \E j \in DOMAIN lines : Len(lines[j]) > 0 /\ lines[j][1] = Fence
    THEN CHOOSE j \in DOMAIN lines :
           /\ Len(lines[j]) > 0 /\ lines[j][1] = Fence
           /\ \A k \in 1..(j - 1) : ~(Len(lines[k]) > 0 /\ lines[k][1] = Fence)
    ELSE 0
HeadingLevel(line) ==
  IF Len(line) >= 3 /\ line[2] = " " /\ line[1] \in {"#", "##", "###"}
    THEN CASE line[1] = "#" -> 1 [] line[1] = "##" -> 2 [] OTHER -> 3
    ELSE 0
\* the heading the backward search from line j finds, or 0: the nearest
\* heading of level 2 or 3 that no heading of level 1 separates from line j
NearestHeading(j) ==
  LET found == { h \in 1..(j - 1) :
                   /\ HeadingLevel(lines[h]) \in {2, 3}
                   /\ \A k \in (h + 1)..(j - 1) : HeadingLevel(lines[k]) = 0 }
  IN  IF found = {} THEN 0 ELSE Greatest(found)
HasTitle(line) == \E k \in DOMAIN line : line[k] = " title=\""
\* the opening fence line as the claim has it written
EnhancedFence(j) ==
  IF HasTitle(lines[j]) \/ NearestHeading(j) = 0 THEN lines[j]
  ELSE lines[j] \o <<" title=\"">>
         \o SubSeq(lines[NearestHeading(j)], 3, Len(lines[NearestHeading(j)]))
         \o <<"\"">>
ForwardFileWritten ==
  /\ pc = "returned" /\ finalContent # NoContent
  /\ call.fn \in {"processFiles", "watchFiles"} /\ ~call.reverse

\* C25: in the content the forward transform writes for a file, the opening
\* line of an ordinary fenced code block without a title carries
\* title="<heading>" of the nearest preceding heading of level 2 or 3 that no
\* level-1 heading separates from it; a fence with a title or without such a
\* heading is written unchanged.
C25_FenceTitleFromHeading ==
  (ForwardFileWritten /\ OpeningFenceLine > 0)
    => /\ \E k \in DOMAIN finalContent :
            finalContent[k] = EnhancedFence(OpeningFenceLine)
       /\ EnhancedFence(OpeningFenceLine) # lines[OpeningFenceLine]
            => \A k \in DOMAIN finalContent :
                 finalContent[k] # lines[OpeningFenceLine]

\* the document taken forward and back has one block, a steps block whose
\* lines are all of the form "Step N: body"
OnlyStepsBlock ==
  /\ pc = "ret" /\ call = NoCall
  /\ errors = << >> /\ transformErrors = << >>
  /\ Len(blocks) = 1 /\ blocks[1].type = <<"steps">>
  /\ NonBlankLines(blocks[1].content) # << >>
  /\ \A k \in DOMAIN blocks[1].content : StepMatch(blocks[1].content[k]).matched

\* C26: the reverse steps matcher turns the markup the forward emitter wrote
\* for a steps block into a :::steps annotation with the original step
\* lines "Step N: body", one per step, in order.
C26_StepsBack ==
  OnlyStepsBlock
    => Canon(ret) = Canon(SubSeq(lines, 1, blocks[1].startLine - 1)
                            \o << Colons \o <<"steps">> >>
                            \o blocks[1].content
                            \o << Colons >>
                            \o SubSeq(lines, blocks[1].endLine + 1, Len(lines)))

\* the listing of a tree: one line per node in document order, two spaces per
\* level of nesting, a directory with its "/"
RECURSIVE ListingOf(_, _)
ListingOf(nodes, level) ==
  Flatten([k \in DOMAIN nodes |->
    IF nodes[k].isFile
      THEN << Indent(level) \o nodes[k].name >>
      ELSE << Indent(level) \o nodes[k].name \o <<"/">> >>
             \o ListingOf(nodes[k].children.items, level + 1)])

ConvertFilesReturned ==
  /\ pc = "ret" /\ call.fn = "convertFiles"
  /\ parseFilesContent(call.content) # << >>

\* C27: from the markup the forward emitter wrote for a files block, the
\* reverse files matcher writes one line per File element, in document order,
\* indented by two spaces per level of directory nesting, also below
\* directories nested two levels deep and after them.
C27_ListingBack ==
  ConvertFilesReturned
    => ret = << Colons \o <<"files">> >>
               \o ListingOf(parseFilesContent(call.content), 0)
               \o << Colons >>

\* the reverse matcher wrote an annotation for the element of the call, and
\* parseAnnotations has scanned the text
ConvertedAndScanned ==
  /\ pc = "parsed" /\ call.fn = "reverseTransform"
  /\ (call.element = "CodeBlock" /\ call.title # Undefined)
       => ~looksLikeHeadingTitle(call.title)

\* the annotation type of the element of the call
AnnotationTypeOf(c) ==
  CASE c.element = "Callout" -> <<"callout-" \o c.type[1]>>
    [] c.element = "Banner" -> <<"banner">>
    [] OTHER -> <<"code-block">>

\* C28: parseAnnotations accepts the text reverseTransform wrote: for the
\* component the reverse matcher converted it returns one block of the
\* corresponding type, where the component stood, and no error.
C28_ReverseOutputScans ==
  ConvertedAndScanned
    => /\ errors = << >>
       /\ \E k \in DOMAIN blocks :
            /\ blocks[k].type = AnnotationTypeOf(call)
            /\ blocks[k].startLine = Len(call.before) + 1
            /\ \A j \in DOMAIN blocks :
                 blocks[j].startLine = blocks[k].startLine => j = k

\* validateAnnotation returned no error for the steps block of the call
StepsAccepted ==
  /\ pc = "ret" /\ call.fn = "validateAnnotation"
  /\ call.block.type = <<"steps">>
  /\ ret = << >>

\* the Step element of a line "Step N: body" as the claim has it emitted:
\* the title "Step N" and the text after the colon
StepElementOf(line) ==
  LET t == Trim(line)
      colon == CHOOSE k \in DOMAIN t : t[k] = ":" /\ \A j \in 1..(k - 1) : t[j] # ":"
      number == SelectSeq(SubSeq(t, 2, colon - 1), LAMBDA x : x \in DigitTokens)
  IN  << <<"<Step>">>, <<"#", "#", " ", "Step", " ">> \o number,
         Trim(SubSeq(t, colon + 1, Len(t))), <<"</Step>">> >>

\* C29: steps validation and steps parsing agree: when validateAnnotation
\* accepts a steps block, the forward transform emits every line of it with
\* the title "Step N" of the line's number and the text after the colon as
\* body, and none through the fallback title "Step".
C29_StepsValidationAgrees ==
  StepsAccepted
    => LET ls == NonBlankLines(call.block.content)
       IN  transformSteps(call.block.content).markup
             = << <<"<Steps>">> >>
                 \o Flatten([k \in DOMAIN ls |-> StepElementOf(ls[k])])
                 \o << <<"</Steps>">> >>

\* the import lines of a final content
ImportLinesOf(content) ==
  { content[k][1] : k \in { j \in DOMAIN content :
                              Len(content[j]) = 1
                              /\ content[j][1] \in { CalloutImport, TabsImport,
                                   StepsImport, AccordionImport, CodeBlockImport,
                                   FilesImport, BannerImport } } }

\* the imports the blocks of a file register
OwnImports(file) ==
  UNION { transformBlock(DEFAULT_CONFIG, file.blocks[k]).imports :
            k \in DOMAIN file.blocks }

\* C30: whatever the interleaving of the processFile invocations of
\* overlapping watch events on the one instance, the import lines assembled
\* for a file and written to its output file are exactly the imports its own
\* blocks registered: no other invocation clears or extends usedImports
\* between the file's transform and the assembly of its final content.
C30_OwnImportsWritten ==
  call.fn = "watch"
    => \A p \in DOMAIN ret :
         /\ ret[p].finalContent # NoContent
              => ImportLinesOf(ret[p].finalContent) = OwnImports(ret[p].file)
         /\ ret[p].written # NoContent
              => ImportLinesOf(ret[p].written) = OwnImports(ret[p].file)

\* an invocation awaits the file system with its final content assembled,
\* and another invocation has since refilled usedImports with other imports
C30_Witness ==
  /\ call.fn = "watch"
  /\ \E p \in DOMAIN ret :
       /\ ret[p].at = "write" /\ ret[p].finalContent # NoContent
       /\ OwnImports(ret[p].file) # {}
       /\ usedImports # {}
       /\ usedImports # OwnImports(ret[p].file)

====
